---- MODULE Spec2Model ----
(***************************************************************************)
(* Model of the chunker (app/services/text_splitter.py), the hybrid        *)
(* retrieval engine (app/services/vector_service.py), the retrieval        *)
(* orchestrator (app/services/qa_service.py) and vector ingestion.         *)
(*                                                                         *)
(* Python strings are sequences of one-character strings.  Floats are      *)
(* fixed-point integers with three decimals.                               *)
(***************************************************************************)
EXTENDS Integers, Sequences, FiniteSets, TLC

VARIABLES
    \* _clean_md applied to a text, and again to its own result
    clean_in,             \* the input text
    clean_out,            \* the results so far: <<>>, <<c1>>, <<c1, c2>>
    \* text_splitter: the module-level _paragraph_splitter and split_text
    chunk_size,           \* _paragraph_splitter.chunk_size
    chunk_overlap,        \* _paragraph_splitter.chunk_overlap
    markdown_text,        \* the argument of split_text
    li,                   \* the index of the line the loop is at
    all_chunks,
    text_buffer,
    table_buffer,
    headings,
    current_page,
    current_table_title,
    spc,                  \* "idle", "loop" or "done"
    \* vector_service: one call of query_vectors_hybrid
    query_text,
    top_k,
    candidate_k,
    alpha,
    lambda_mmr,
    doc_ids,
    response,             \* what query_vectors returned
    candidates,           \* the candidates after the scope filter, scored
    selected,
    remaining,
    hpc,                  \* "idle", "start", "mmr" or "done"
    hy_result,            \* the list the call returns
    \* qa_service: one call of ask_with_context
    query,
    ask_top_k,            \* its argument top_k
    use_reranking,
    ask_doc_ids,          \* its argument doc_ids
    sess,                 \* the session of the request, if it names one
    variations,
    vi,                   \* the index of the variation the loop is at
    all_results,
    var_results_seen,     \* the lists var_results of the turns so far
    dedup,                \* the values of the dict, in insertion order
    ask_return,           \* the dict the call returns
    apc,                  \* "idle", "variants", "done", "raised", "answered"
                          \* or "responded"
    \* qa_service and routes/document: answer_with_context as the route
    \* /ask-with-context calls it
    fault,                \* the text of the exception in flight, if any
    answer,               \* what answer_with_context returns, if it does
    generate_calls,       \* the contexts generate_answer was called with
    route_response,       \* what the caller of the route receives
    \* vector_service: store_vectors_in_s3 as process_pdf_and_store calls it
    VECTOR_PUT_BATCH_SIZE,
    VECTOR_STORAGE_MAX_RETRIES,
    VECTOR_STORAGE_BACKOFF_FACTOR,
    filename,
    processed_chunks,
    embeddings,
    vectors_to_store,
    batch_start,          \* the index i of the loop over the batches
    attempt,              \* the attempt of _put_vectors_batch
    slept,                \* the delays _put_vectors_batch took for the batch
    vector_store,         \* the vectors of the index
    doc_metadata,         \* the metadata objects: s3_key, total_chunks, status
    ingestions,           \* the ingestions of the file started so far
    ingest_log,           \* per ingestion that returned: what it left behind
    stpc,                 \* "idle", "start", "put", "done", "rejected",
                          \* "throttled_out", "fatal", "delete",
                          \* "delete_raised", "deleted" or "delete_error"
    store_calls,          \* the outcomes of the calls to the store made by
                          \* the running _put_vectors_batch or
                          \* _delete_vectors_batch: "ok" or an error code
    faulted,              \* some call to a store has failed so far
    \* deletion_service: delete_embeddings_and_metadata, with batch_start,
    \* attempt and slept of delete_vectors_by_keys and _delete_vectors_batch
    vector_keys,
    deleted_count,
    delete_return,        \* the tuple the call returns, if it does
    removed_vectors,      \* how many vectors the store has dropped in the call
    \* embedding_service: one call of create_embeddings_batch
    texts,
    max_workers,
    futures,              \* per text: the state of its future and its result
    arrival,              \* the indices of the texts in completion order
    batch_embeddings,     \* the list the call returns, if it does
    epc,                  \* "idle", "map", "failing", "returned" or "raised"
    \* prompt_service and routes/execute: context retrieval under a deadline
    \* in generate_dynamic_prompt and execute_with_prompt
    site,                 \* which of the two functions runs
    elapsed,              \* seconds since wait_for started
    retrieval,            \* ask_with_context in the executor: "running",
                          \* "returned", "raised", "abandoned" or
                          \* "returned_late"
    gen_context,          \* the local variable context
    used_context,
    generation,           \* the contexts the generation step was called with
    dpc,                  \* "idle", "waiting", "ready" or "generated"
    \* vector_service: one call of rerank_results
    rr_query,             \* its argument query_text
    rr_results,           \* its argument results
    rr_ranked,            \* the list it returns
    rpc,                  \* "idle", "start" or "done"
    \* embedding_service: the callers of _get_session
    _session,             \* the module's global
    _session_lock,        \* the caller that holds the lock, or 0
    created,              \* the Session objects made so far: per object the
                          \* prefixes an adapter is mounted on
    gpc,                  \* per caller: where it is in _get_session
    session,              \* per caller: its local variable session
    calls,                \* per caller: the calls it has made
    returned              \* what the calls returned, with the adapters the
                          \* session had at that moment

cleanVars == <<clean_in, clean_out>>

splitVars ==
    <<chunk_size, chunk_overlap, markdown_text, li, all_chunks, text_buffer,
      table_buffer, headings, current_page, current_table_title, spc>>

hybridVars ==
    <<query_text, top_k, candidate_k, alpha, lambda_mmr, doc_ids, response,
      candidates, selected, remaining, hpc, hy_result>>

answerVars == <<fault, answer, generate_calls, route_response>>

askVars ==
    <<query, ask_top_k, use_reranking, ask_doc_ids, sess, variations, vi,
      all_results, var_results_seen, dedup, ask_return, apc, answerVars>>

storeVars ==
    <<VECTOR_PUT_BATCH_SIZE, VECTOR_STORAGE_MAX_RETRIES,
      VECTOR_STORAGE_BACKOFF_FACTOR, filename, processed_chunks, embeddings,
      vectors_to_store, batch_start, attempt, slept, vector_store,
      doc_metadata, ingestions, ingest_log, stpc, store_calls, faulted,
      vector_keys, deleted_count, delete_return, removed_vectors>>

deleteVars == <<vector_keys, deleted_count, delete_return, removed_vectors>>

embedVars ==
    <<texts, max_workers, futures, arrival, batch_embeddings, epc>>

deadlineVars ==
    <<site, elapsed, retrieval, gen_context, used_context, generation, dpc>>

rerankVars == <<rr_query, rr_results, rr_ranked, rpc>>

sessionVars ==
    <<_session, _session_lock, created, gpc, session, calls, returned>>

vars ==
    <<cleanVars, splitVars, hybridVars, askVars, storeVars, embedVars,
      deadlineVars, rerankVars, sessionVars>>

\* what the actions of one component leave alone
otherThanClean ==
    <<splitVars, hybridVars, askVars, storeVars, embedVars,
      deadlineVars, rerankVars, sessionVars>>
otherThanSplit ==
    <<cleanVars, hybridVars, askVars, storeVars, embedVars,
      deadlineVars, rerankVars, sessionVars>>
otherThanHybrid ==
    <<cleanVars, splitVars, askVars, storeVars, embedVars,
      deadlineVars, rerankVars, sessionVars>>
otherThanAsk ==
    <<cleanVars, splitVars, hybridVars, storeVars, embedVars,
      deadlineVars, rerankVars, sessionVars>>
otherThanStore ==
    <<cleanVars, splitVars, hybridVars, askVars, embedVars,
      deadlineVars, rerankVars, sessionVars>>
otherThanDeadline ==
    <<cleanVars, splitVars, hybridVars, askVars, storeVars, embedVars,
      rerankVars, sessionVars>>
otherThanRerank ==
    <<cleanVars, splitVars, hybridVars, askVars, storeVars, embedVars,
      deadlineVars, sessionVars>>
otherThanSession ==
    <<cleanVars, splitVars, hybridVars, askVars, storeVars, embedVars,
      deadlineVars, rerankVars>>
otherThanEmbed ==
    <<cleanVars, splitVars, hybridVars, askVars, storeVars,
      deadlineVars, rerankVars, sessionVars>>

(***************************************************************************)
(* Bounds                                                                  *)
(***************************************************************************)
MaxCleanLen == 6
MaxLines == 3        \* lines of a markdown_text
MaxRows == 2         \* data lines of a table block
MaxParaLen == 6      \* characters of a paragraph
MaxChunkSize == 4    \* the largest configured TEXT_SPLITTER_CHUNK_SIZE
MaxCand == 3         \* vectors in a response of query_vectors
MaxMerged == 6       \* the most results of one variant in a merge
MaxTopK == 2         \* the largest top_k of a call
MaxChunks == 2       \* chunks of an ingested document
MaxIngestions == 2   \* ingestions of one file
MaxRetries == 2      \* the largest configured VECTOR_STORAGE_MAX_RETRIES
MaxTexts == 3        \* texts of a call of create_embeddings_batch
MaxWorkers == 2      \* the largest configured EMBEDDING_MAX_WORKERS
MaxCallers == 3      \* threads that call _get_session
MaxCalls == 2        \* calls of _get_session by one thread
MaxParagraphs == 2   \* text_paragraph chunks beside the definition chunk
MaxHeadingLines == 4 \* lines of a markdown_text of headings and paragraphs
MaxCaptionLines == 4 \* lines of a markdown_text of captions and tables
MaxCueLines == 3     \* lines of a paragraph with classification cues
MaxFooterLines == 4  \* lines of a markdown_text with page footers

(***************************************************************************)
(* Python string primitives                                                *)
(***************************************************************************)
\* str.isspace for one character (the whitespace that occurs in the model)
IsSpace(c) == c \in {" ", "\t", "\n", "\r"}

\* the backquote character (U+0060), which a TLA+ string literal cannot hold
BackTick == "tick"

RECURSIVE LStripChars(_, _)
LStripChars(s, cs) ==
    IF s # <<>> /\ Head(s) \in cs THEN LStripChars(Tail(s), cs) ELSE s

RECURSIVE RStripChars(_, _)
RStripChars(s, cs) ==
    IF s # <<>> /\ s[Len(s)] \in cs
    THEN RStripChars(SubSeq(s, 1, Len(s) - 1), cs) ELSE s

\* str.strip(chars)
StripChars(s, cs) == RStripChars(LStripChars(s, cs), cs)

\* str.strip()
Strip(s) == StripChars(s, {" ", "\t", "\n", "\r"})

\* s[i:] has prefix p (i is 1-based)
MatchAt(s, i, p) ==
    /\ i + Len(p) - 1 <= Len(s)
    /\ \A k \in 1..Len(p) : s[i + k - 1] = p[k]

\* str.startswith
StartsWith(s, p) == MatchAt(s, 1, p)

\* the "in" operator on strings
Contains(s, p) == \E i \in 1..(Len(s) + 1) : MatchAt(s, i, p)

\* all strings over alphabet A of length exactly n / at most n
RECURSIVE StringsOfLen(_, _)
StringsOfLen(A, n) ==
    IF n = 0 THEN {<<>>}
    ELSE {<<c>> \o t : c \in A, t \in StringsOfLen(A, n - 1)}

StringsUpTo(A, n) == UNION {StringsOfLen(A, k) : k \in 0..n}

(***************************************************************************)
(* More Python primitives                                                  *)
(***************************************************************************)
\* Optional[...]: None is the empty tuple, a value x is <<x>>
None == <<>>
Some(x) == <<x>>

UpperLetters ==
    <<"A", "B", "C", "D", "E", "F", "G", "H", "I", "J", "K", "L", "M",
      "N", "O", "P", "Q", "R", "S", "T", "U", "V", "W", "X", "Y", "Z">>
LowerLetters ==
    <<"a", "b", "c", "d", "e", "f", "g", "h", "i", "j", "k", "l", "m",
      "n", "o", "p", "q", "r", "s", "t", "u", "v", "w", "x", "y", "z">>
DigitChars == <<"0", "1", "2", "3", "4", "5", "6", "7", "8", "9">>

UpperSet == {UpperLetters[i] : i \in 1..Len(UpperLetters)}
LowerSet == {LowerLetters[i] : i \in 1..Len(LowerLetters)}
DigitSet == {DigitChars[i] : i \in 1..Len(DigitChars)}

IsUpper(c) == c \in UpperSet
IsLowerLetter(c) == c \in LowerSet
IsDigit(c) == c \in DigitSet

\* str.isalnum for one character
IsAlnum(c) == IsUpper(c) \/ IsLowerLetter(c) \/ IsDigit(c)

\* the regular expression class \w
IsWordChar(c) == IsAlnum(c) \/ c = "_"

LowerChar(c) ==
    IF IsUpper(c)
    THEN LowerLetters[CHOOSE i \in 1..Len(UpperLetters) : UpperLetters[i] = c]
    ELSE c

\* str.lower
Lower(s) == [i \in 1..Len(s) |-> LowerChar(s[i])]

DigitVal(c) == (CHOOSE i \in 1..Len(DigitChars) : DigitChars[i] = c) - 1

\* int(s) for a string of digits
RECURSIVE StrToInt(_)
StrToInt(s) ==
    IF s = <<>> THEN 0
    ELSE 10 * StrToInt(SubSeq(s, 1, Len(s) - 1)) + DigitVal(s[Len(s)])

\* str(n) for n >= 0
RECURSIVE IntToStr(_)
IntToStr(n) ==
    IF n < 10 THEN <<DigitChars[n + 1]>>
    ELSE IntToStr(n \div 10) \o <<DigitChars[(n % 10) + 1]>>

\* the first j >= i with s[j] = c, 0 when there is none
RECURSIVE FindChar(_, _, _)
FindChar(s, j, c) ==
    IF j > Len(s) THEN 0
    ELSE IF s[j] = c THEN j
    ELSE FindChar(s, j + 1, c)

\* str.split(c) for a one-character separator
RECURSIVE SplitOn(_, _)
SplitOn(s, c) ==
    LET j == FindChar(s, 1, c) IN
    IF j = 0 THEN <<s>>
    ELSE <<SubSeq(s, 1, j - 1)>> \o SplitOn(SubSeq(s, j + 1, Len(s)), c)

\* sep.join(parts)
RECURSIVE Join(_, _)
Join(parts, sep) ==
    IF parts = <<>> THEN <<>>
    ELSE IF Len(parts) = 1 THEN parts[1]
    ELSE parts[1] \o sep \o Join(Tail(parts), sep)

\* the first j >= i with j past the end of s or s[j] not in cs
RECURSIVE SkipIn(_, _, _)
SkipIn(s, i, cs) ==
    IF i > Len(s) \/ s[i] \notin cs THEN i ELSE SkipIn(s, i + 1, cs)

WhiteSpace == {" ", "\t", "\n", "\r"}

(***************************************************************************)
(* String literals of text_splitter.py                                     *)
(***************************************************************************)
S_definition_colon ==
   <<"d", "e", "f", "i", "n", "i", "t", "i", "o", "n", ":">>
S_means_ ==
   <<"m", "e", "a", "n", "s", " ">>
S_is_defined_as ==
   <<"i", "s", " ", "d", "e", "f", "i", "n", "e", "d", " ", "a", "s">>
S_refers_to ==
   <<"r", "e", "f", "e", "r", "s", " ", "t", "o">>
S_steps ==
   <<"s", "t", "e", "p", "s">>
S_procedure ==
   <<"p", "r", "o", "c", "e", "d", "u", "r", "e">>
S_how_to ==
   <<"h", "o", "w", " ", "t", "o">>
S_process ==
   <<"p", "r", "o", "c", "e", "s", "s">>
S_method ==
   <<"m", "e", "t", "h", "o", "d">>
S_Section ==
   <<"S", "e", "c", "t", "i", "o", "n", ":", " ">>
S_Table ==
   <<"T", "a", "b", "l", "e", ":", " ">>
S_Page ==
   <<"P", "a", "g", "e", ":", " ">>
S_bar_sep ==
   <<" ", "|", " ">>
S_gt_sep ==
   <<" ", ">", " ">>
S_colon_sp ==
   <<":", " ">>
S_dot_sp ==
   <<".", " ">>
S_sep_prefix ==
   <<"|", "-", "-">>
S_award_code ==
   <<"a", "w", "a", "r", "d", " ", "c", "o", "d", "e", ":">>
S_table ==
   <<"t", "a", "b", "l", "e">>
S_of ==
   <<"o", "f">>

(***************************************************************************)
(* _clean_md                                                               *)
(***************************************************************************)
\* the first j >= i at which the closing two-character delimiter d d of
\* (.*?) can match: the dot does not match a newline.  0 when there is none.
RECURSIVE FindClosePair(_, _, _)
FindClosePair(s, j, d) ==
    IF j + 1 > Len(s) THEN 0
    ELSE IF s[j] = d /\ s[j + 1] = d THEN j
    ELSE IF s[j] = "\n" THEN 0
    ELSE FindClosePair(s, j + 1, d)

\* re.sub(r"dd(.*?)dd", r"\1", s) from position i on
RECURSIVE SubPairFrom(_, _, _)
SubPairFrom(s, i, d) ==
    IF i > Len(s) THEN <<>>
    ELSE IF i + 1 <= Len(s) /\ s[i] = d /\ s[i + 1] = d
    THEN LET j == FindClosePair(s, i + 2, d) IN
         IF j = 0 THEN <<s[i]>> \o SubPairFrom(s, i + 1, d)
         ELSE SubSeq(s, i + 2, j - 1) \o SubPairFrom(s, j + 2, d)
    ELSE <<s[i]>> \o SubPairFrom(s, i + 1, d)

\* re.sub of the inline-code pattern (tick, non-ticks, tick) from position i on
RECURSIVE SubTickFrom(_, _)
SubTickFrom(s, i) ==
    IF i > Len(s) THEN <<>>
    ELSE IF s[i] = BackTick
    THEN LET j == FindChar(s, i + 1, BackTick) IN
         IF j = 0 THEN <<s[i]>> \o SubTickFrom(s, i + 1)
         ELSE SubSeq(s, i + 1, j - 1) \o SubTickFrom(s, j + 1)
    ELSE <<s[i]>> \o SubTickFrom(s, i + 1)

\* re.sub(r"\s+", " ", s) from position i on
RECURSIVE CollapseSpaceFrom(_, _)
CollapseSpaceFrom(s, i) ==
    IF i > Len(s) THEN <<>>
    ELSE IF IsSpace(s[i])
    THEN IF i > 1 /\ IsSpace(s[i - 1])
         THEN CollapseSpaceFrom(s, i + 1)
         ELSE <<" ">> \o CollapseSpaceFrom(s, i + 1)
    ELSE <<s[i]>> \o CollapseSpaceFrom(s, i + 1)

_clean_md(text) ==
    LET t0 == Strip(text)
        t1 == SubPairFrom(t0, 1, "*")
        t2 == SubPairFrom(t1, 1, "_")
        t3 == SubTickFrom(t2, 1)
    IN  Strip(CollapseSpaceFrom(t3, 1))

(***************************************************************************)
(* Specification SpecClean: _clean_md applied once, then to its result     *)
(***************************************************************************)
CleanAlphabet == {"*", "_", BackTick, " ", "a"}

CleanStart ==
    /\ clean_in \in StringsUpTo(CleanAlphabet, MaxCleanLen)
    /\ clean_out = <<>>

CleanOnce ==
    /\ clean_out = <<>>
    /\ clean_out' = <<_clean_md(clean_in)>>
    /\ UNCHANGED <<clean_in, otherThanClean>>

CleanTwice ==
    /\ Len(clean_out) = 1
    /\ clean_out' = Append(clean_out, _clean_md(clean_out[1]))
    /\ UNCHANGED <<clean_in, otherThanClean>>

(***************************************************************************)
(* text_splitter.py: the functions                                         *)
(***************************************************************************)
\* _ParagraphSplitter.split_text: fixed-size windows from offset start
\* (0-based), each starting size - overlap after the one before
\* a splitter that forgets the overlap: each window starts where the one
\* before ended
RECURSIVE ParagraphWindows_NoOverlap(_, _, _, _)
ParagraphWindows_NoOverlap(text, start_index, size, overlap) ==
    IF start_index >= Len(text) THEN <<>>
    ELSE LET end_index == start_index + size IN
         <<SubSeq(text, start_index + 1,
                  IF end_index > Len(text) THEN Len(text) ELSE end_index)>>
         \o ParagraphWindows_NoOverlap(text, start_index + size, size, overlap)

RECURSIVE ParagraphWindows(_, _, _, _)
ParagraphWindows(text, start_index, size, overlap) ==
    IF start_index >= Len(text) THEN <<>>
    ELSE LET end_index == start_index + size IN
         <<SubSeq(text, start_index + 1,
                  IF end_index > Len(text) THEN Len(text) ELSE end_index)>>
         \o ParagraphWindows(text, start_index + (size - overlap), size, overlap)

_ParagraphSplitter_split_text(text) ==
    ParagraphWindows(text, 0, chunk_size, chunk_overlap)

\* _PAGE_FOOTER_RE.search(s) on a stripped line: group(1) as Some(digits),
\* or None.  The pattern ends \s(\d+)\s*$, so the digits are the text after
\* the last whitespace, and "Award Code:" (any case, at a word boundary)
\* must end before that whitespace.
LastSpaceBefore(s) ==
    IF \E p \in 1..Len(s) : IsSpace(s[p])
    THEN CHOOSE p \in 1..Len(s) :
            IsSpace(s[p]) /\ \A q \in (p + 1)..Len(s) : ~IsSpace(s[q])
    ELSE 0

PageFooterGroup(s) ==
    LET p == LastSpaceBefore(s)
        digits == SubSeq(s, p + 1, Len(s))
    IN  IF /\ p > 0
           /\ digits # <<>>
           /\ \A k \in 1..Len(digits) : IsDigit(digits[k])
           /\ \E i \in 1..Len(s) :
                 /\ MatchAt(Lower(s), i, S_award_code)
                 /\ i + Len(S_award_code) <= p
                 /\ (i = 1 \/ ~IsWordChar(s[i - 1]))
        THEN Some(digits)
        ELSE None

\* the position after at most two "*" from position i
SkipStars(s, i) ==
    IF i <= Len(s) /\ s[i] = "*"
    THEN IF i + 1 <= Len(s) /\ s[i + 1] = "*" THEN i + 2 ELSE i + 1
    ELSE i

\* \s*\*{0,2}$ from position p
TitleTailOK(s, p) == SkipStars(s, SkipIn(s, p, WhiteSpace)) = Len(s) + 1

\* _TABLE_TITLE_RE.match(s):
\*   ^\*{0,2}\s*Table\s+\d+(\s+of\s+\d+)?\s*\*{0,2}$   (IGNORECASE)
TableTitleMatch(s) ==
    LET b == SkipIn(s, SkipStars(s, 1), WhiteSpace)
        c == b + Len(S_table)
        d == SkipIn(s, c, WhiteSpace)
        e == SkipIn(s, d, DigitSet)
        f == SkipIn(s, e, WhiteSpace)
        g == f + Len(S_of)
        h == SkipIn(s, g, WhiteSpace)
        k == SkipIn(s, h, DigitSet)
    IN  /\ MatchAt(Lower(s), b, S_table)
        /\ d > c
        /\ e > d
        /\ \/ TitleTailOK(s, e)
           \/ /\ f > e
              /\ MatchAt(Lower(s), f, S_of)
              /\ h > g
              /\ k > h
              /\ TitleTailOK(s, k)

\* a classification that looks for the procedure cues first
_classify_ProcedureFirst(text) ==
    LET tl == Lower(text) IN
    IF \E k \in {S_steps, S_procedure, S_how_to, S_process, S_method} :
          Contains(tl, k)
    THEN "procedure"
    ELSE IF \E k \in {S_definition_colon, S_means_, S_is_defined_as,
                       S_refers_to} : Contains(tl, k)
         THEN "definition"
         ELSE "text_paragraph"

_classify_text_block(text) ==
    LET tl == Lower(text) IN
    IF \E k \in {S_definition_colon, S_means_, S_is_defined_as, S_refers_to} :
          Contains(tl, k)
    THEN "definition"
    ELSE IF \E k \in {S_steps, S_procedure, S_how_to, S_process, S_method} :
               Contains(tl, k)
         THEN "procedure"
         ELSE "text_paragraph"

_build_prefix(section_path, table_title, page_number) ==
    LET p1 == IF section_path # <<>>
              THEN <<S_Section \o section_path>> ELSE <<>>
        p2 == IF table_title # None /\ table_title[1] # <<>>
              THEN <<S_Table \o table_title[1]>> ELSE <<>>
        p3 == IF page_number # None
              THEN <<S_Page \o IntToStr(page_number[1])>> ELSE <<>>
    IN  Strip(Join(p1 \o p2 \o p3, S_bar_sep))

\* f"{prefix}\n{text}".strip() if prefix else text
WithPrefix(prefix, text) ==
    IF prefix # <<>> THEN Strip(prefix \o <<"\n">> \o text) ELSE text

\* a chunk that does not keep its page
Chunk_NoPage(content, type, page_number, section_path) ==
    [content |-> content, type |-> type,
     page_number |-> <<>>, section_path |-> section_path]

Chunk(content, type, page_number, section_path) ==
    [content |-> content, type |-> type,
     page_number |-> page_number, section_path |-> section_path]

\* the loop over sub_chunks of _process_text_chunk
RECURSIVE SubChunks(_, _, _, _, _)
SubChunks(sub_chunks, prefix, chunk_type, section_path, page_number) ==
    IF sub_chunks = <<>> THEN <<>>
    ELSE LET chunk == Strip(Head(sub_chunks))
             rest == SubChunks(Tail(sub_chunks), prefix, chunk_type,
                               section_path, page_number)
         IN  IF chunk = <<>> THEN rest
             ELSE <<Chunk(WithPrefix(prefix, chunk), chunk_type,
                          page_number, section_path)>> \o rest

_process_text_chunk(buffer, section_path, page_number) ==
    LET joined == Strip(Join(buffer, <<" ">>))
        content == _clean_md(joined)
        chunk_type == _classify_text_block(content)
        prefix == _build_prefix(section_path, None, page_number)
    IN  IF joined = <<>> THEN <<>>
        ELSE IF Len(content) > chunk_size
        THEN SubChunks(_ParagraphSplitter_split_text(content), prefix,
                       chunk_type, section_path, page_number)
        ELSE <<Chunk(WithPrefix(prefix, content), chunk_type,
                     page_number, section_path)>>

\* [_clean_md(c.strip()) for c in line.strip('| \n').split('|')]
RowCells(line) ==
    LET raw == SplitOn(StripChars(line, {"|", " ", "\n"}), "|")
    IN  [i \in 1..Len(raw) |-> _clean_md(Strip(raw[i]))]

\* the "<header>: <cell>" parts of a row, columns with an empty header or
\* an empty cell left out
RECURSIVE RowParts(_, _)
RowParts(headers, cells) ==
    IF headers = <<>> \/ cells = <<>> THEN <<>>
    ELSE (IF Head(headers) # <<>> /\ Head(cells) # <<>>
          THEN <<Head(headers) \o S_colon_sp \o Head(cells)>> ELSE <<>>)
         \o RowParts(Tail(headers), Tail(cells))

\* the chunks of one data line of _process_table_chunk (none or one)
RowChunks(raw_line, headers, prefix, section_path, page_number) ==
    LET line == Strip(raw_line)
        cells == RowCells(line)
        row_content == Join(RowParts(headers, cells), S_dot_sp)
    IN  IF StartsWith(line, S_sep_prefix) \/ line = <<>> THEN <<>>
        ELSE IF Len(cells) # Len(headers) THEN <<>>
        ELSE IF row_content = <<>> THEN <<>>
        ELSE <<Chunk(WithPrefix(prefix, _clean_md(row_content)), "table_row",
                     page_number, section_path)>>

RECURSIVE TableRows(_, _, _, _, _)
TableRows(rows, headers, prefix, section_path, page_number) ==
    IF rows = <<>> THEN <<>>
    ELSE RowChunks(Head(rows), headers, prefix, section_path, page_number)
         \o TableRows(Tail(rows), headers, prefix, section_path, page_number)

_process_table_chunk(buffer, section_path, table_title, page_number) ==
    IF buffer = <<>> THEN <<>>
    ELSE TableRows(Tail(buffer), RowCells(buffer[1]),
                   _build_prefix(section_path, table_title, page_number),
                   section_path, page_number)

\* a heading update that keeps the deeper levels
_update_headings_KeepDeeper(existing, level, heading_text) ==
    LET lvl == IF level < 1 THEN 1 ELSE IF level > 6 THEN 6 ELSE level
        padded == [i \in 1..(IF Len(existing) < lvl THEN lvl ELSE Len(existing))
                     |-> IF i <= Len(existing) THEN existing[i] ELSE <<>>]
    IN  RStripChars([padded EXCEPT ![lvl] = heading_text], {<<>>})

_update_headings(existing, level, heading_text) ==
    LET lvl == IF level < 1 THEN 1 ELSE IF level > 6 THEN 6 ELSE level
        padded == [i \in 1..(IF Len(existing) < lvl THEN lvl ELSE Len(existing))
                     |-> IF i <= Len(existing) THEN existing[i] ELSE <<>>]
        set == [padded EXCEPT ![lvl] = heading_text]
    IN  RStripChars(SubSeq(set, 1, lvl), {<<>>})

_section_path(hs) ==
    LET cleaned == SelectSeq(hs, LAMBDA h : h # <<>>) IN
    IF cleaned = <<>> THEN <<>>
    ELSE Join(SubSeq(cleaned, IF Len(cleaned) > 2 THEN Len(cleaned) - 1 ELSE 1,
                     Len(cleaned)), S_gt_sep)

(***************************************************************************)
(* split_text: the loop over the lines of markdown_text                    *)
(***************************************************************************)
lines == SplitOn(markdown_text, "\n")

\* the line the loop is at, stripped
stripped_line == Strip(lines[li])

InLoop == spc = "loop" /\ li <= Len(lines)

IsFooterLine == PageFooterGroup(stripped_line) # None
IsHeadingLine == ~IsFooterLine /\ StartsWith(stripped_line, <<"#">>)
IsTableTitleLine ==
    ~IsFooterLine /\ ~IsHeadingLine /\ TableTitleMatch(_clean_md(stripped_line))
IsOtherLine == ~IsFooterLine /\ ~IsHeadingLine /\ ~IsTableTitleLine

\* all_chunks.extend(_process_text_chunk(text_buffer, ...)) when text_buffer
FlushedText ==
    IF text_buffer # <<>>
    THEN _process_text_chunk(text_buffer, _section_path(headings), current_page)
    ELSE <<>>

\* all_chunks.extend(_process_table_chunk(table_buffer, ...)) when table_buffer
FlushedTable ==
    IF table_buffer # <<>>
    THEN _process_table_chunk(table_buffer, _section_path(headings),
                              current_table_title, current_page)
    ELSE <<>>

\* a page footer line: remember the page, emit nothing
SplitFooterLine ==
    /\ InLoop
    /\ IsFooterLine
    /\ current_page' = Some(StrToInt(PageFooterGroup(stripped_line)[1]))
    /\ li' = li + 1
    /\ UNCHANGED <<otherThanSplit, markdown_text, chunk_size, chunk_overlap, all_chunks,
                   text_buffer, table_buffer, headings, current_table_title,
                   spc>>

\* a markdown heading: flush both buffers, update the heading stack
SplitHeadingLine ==
    /\ InLoop
    /\ IsHeadingLine
    /\ all_chunks' = all_chunks \o FlushedText \o FlushedTable
    /\ text_buffer' = <<>>
    /\ table_buffer' = <<>>
    /\ current_table_title' = None
    /\ LET level == SkipIn(stripped_line, 1, {"#"}) - 1
           heading_text ==
               _clean_md(Strip(SubSeq(stripped_line, level + 1,
                                      Len(stripped_line))))
       IN  headings' = IF heading_text # <<>>
                       THEN _update_headings(headings, level, heading_text)
                       ELSE headings
    /\ li' = li + 1
    /\ UNCHANGED <<otherThanSplit, markdown_text, chunk_size, chunk_overlap, current_page, spc>>

\* a "Table N of M" caption: remember it for the table that follows
SplitTableTitleLine ==
    /\ InLoop
    /\ IsTableTitleLine
    /\ current_table_title' =
           Some(Strip(StripChars(_clean_md(stripped_line), {"*"})))
    /\ li' = li + 1
    /\ UNCHANGED <<otherThanSplit, markdown_text, chunk_size, chunk_overlap, all_chunks,
                   text_buffer, table_buffer, headings, current_page, spc>>

\* a line starting with "|": end the open paragraph, extend the table
SplitTableLine ==
    /\ InLoop
    /\ IsOtherLine
    /\ StartsWith(stripped_line, <<"|">>)
    /\ all_chunks' = all_chunks \o FlushedText
    /\ text_buffer' = <<>>
    /\ table_buffer' = Append(table_buffer, stripped_line)
    /\ li' = li + 1
    /\ UNCHANGED <<otherThanSplit, markdown_text, chunk_size, chunk_overlap, headings,
                   current_page, current_table_title, spc>>

\* a non-blank line of text: end the open table, extend the paragraph
SplitTextLine ==
    /\ InLoop
    /\ IsOtherLine
    /\ ~StartsWith(stripped_line, <<"|">>)
    /\ stripped_line # <<>>
    /\ all_chunks' = all_chunks \o FlushedTable
    /\ table_buffer' = <<>>
    /\ current_table_title' =
           IF table_buffer # <<>> THEN None ELSE current_table_title
    /\ text_buffer' = Append(text_buffer, stripped_line)
    /\ li' = li + 1
    /\ UNCHANGED <<otherThanSplit, markdown_text, chunk_size, chunk_overlap, headings,
                   current_page, spc>>

\* a blank line: end the open table, or else the open paragraph
SplitBlankLine ==
    /\ InLoop
    /\ IsOtherLine
    /\ stripped_line = <<>>
    /\ all_chunks' = all_chunks \o FlushedTable \o FlushedText
    /\ table_buffer' = <<>>
    /\ current_table_title' =
           IF table_buffer # <<>> THEN None ELSE current_table_title
    /\ text_buffer' = <<>>
    /\ li' = li + 1
    /\ UNCHANGED <<otherThanSplit, markdown_text, chunk_size, chunk_overlap, headings,
                   current_page, spc>>

\* after the loop: process what is left in the buffers and return
SplitFinish ==
    /\ spc = "loop"
    /\ li > Len(lines)
    /\ all_chunks' = all_chunks \o FlushedText \o FlushedTable
    /\ spc' = "done"
    /\ UNCHANGED <<otherThanSplit, markdown_text, chunk_size, chunk_overlap, li, text_buffer,
                   table_buffer, headings, current_page, current_table_title>>

SplitNext ==
    \/ SplitFooterLine
    \/ SplitHeadingLine
    \/ SplitTableTitleLine
    \/ SplitTableLine
    \/ SplitTextLine
    \/ SplitBlankLine
    \/ SplitFinish

(***************************************************************************)
(* vector_service.py: numbers                                              *)
(***************************************************************************)
\* a float x is the integer One * x, cut to three decimals
One == 1000

\* math.log and the raw lexical scores keep four decimals: they are the
\* integers LnScale * x
LnScale == 10000

BM25_k1 == 1200
BM25_b == 750

RETRIEVAL_MAX_CANDIDATES == 120

Max2(a, b) == IF a >= b THEN a ELSE b
Min2(a, b) == IF a <= b THEN a ELSE b

RECURSIVE SeqMax(_)
SeqMax(s) == IF Len(s) = 1 THEN s[1] ELSE Max2(s[1], SeqMax(Tail(s)))

RECURSIVE SeqMin(_)
SeqMin(s) == IF Len(s) = 1 THEN s[1] ELSE Min2(s[1], SeqMin(Tail(s)))

RECURSIVE SeqSum(_)
SeqSum(s) == IF s = <<>> THEN 0 ELSE s[1] + SeqSum(Tail(s))

Range(s) == {s[i] : i \in 1..Len(s)}

\* atanh(z) = z + z^3/3 + z^5/5 + ..., term is z^k scaled by LnScale
RECURSIVE AtanhSeries(_, _, _)
AtanhSeries(term, z2, k) ==
    IF term = 0 THEN 0
    ELSE (term \div k) + AtanhSeries((term * z2) \div LnScale, z2, k + 2)

\* math.log(p / q) for integers p >= q > 0, as 2 * atanh((p - q) / (p + q))
Ln(p, q) ==
    LET z == ((p - q) * LnScale) \div (p + q)
    IN  2 * AtanhSeries(z, (z * z) \div LnScale, 1)

\* sorted(s, key=lambda x: x[field], reverse=True): stable, so items of equal
\* key keep their order
RECURSIVE SortDescBy(_, _)
SortDescBy(s, field) ==
    IF s = <<>> THEN <<>>
    ELSE LET init == SortDescBy(SubSeq(s, 1, Len(s) - 1), field)
             x == s[Len(s)]
             n == Cardinality({i \in 1..Len(init) : init[i][field] >= x[field]})
         IN  SubSeq(init, 1, n) \o <<x>> \o SubSeq(init, n + 1, Len(init))

(***************************************************************************)
(* vector_service.py: tokens and relevance                                 *)
(***************************************************************************)
_STOPWORDS ==
    {<<"a">>, <<"a", "n">>, <<"a", "n", "d">>, <<"a", "r", "e">>,
     <<"a", "s">>, <<"a", "t">>, <<"b", "e">>, <<"b", "y">>,
     <<"f", "o", "r">>, <<"f", "r", "o", "m">>, <<"h", "a", "s">>,
     <<"h", "a", "v", "e">>, <<"i", "n">>, <<"i", "s">>, <<"i", "t">>,
     <<"o", "f">>, <<"o", "n">>, <<"o", "r">>, <<"t", "h", "a", "t">>,
     <<"t", "h", "e">>, <<"t", "o">>, <<"w", "a", "s">>,
     <<"w", "e", "r", "e">>, <<"w", "i", "t", "h">>,
     <<"w", "h", "a", "t">>, <<"w", "h", "i", "c", "h">>,
     <<"w", "h", "o">>, <<"w", "h", "o", "m">>, <<"w", "h", "e", "n">>,
     <<"w", "h", "e", "r", "e">>, <<"w", "h", "y">>, <<"h", "o", "w">>}

\* the runs of alphanumeric characters of s from position i on, word being
\* the run in progress
RECURSIVE TokenizeFrom(_, _, _)
TokenizeFrom(s, i, word) ==
    IF i > Len(s) THEN (IF word # <<>> THEN <<word>> ELSE <<>>)
    ELSE IF IsAlnum(s[i]) THEN TokenizeFrom(s, i + 1, Append(word, s[i]))
    ELSE (IF word # <<>> THEN <<word>> ELSE <<>>)
         \o TokenizeFrom(s, i + 1, <<>>)

_tokenize_list(text) ==
    SelectSeq(TokenizeFrom(Lower(text), 1, <<>>),
              LAMBDA tok : tok \notin _STOPWORDS)

_tokenize(text) ==
    {t \in Range(TokenizeFrom(Lower(text), 1, <<>>)) : t \notin _STOPWORDS}

_jaccard(a, b) ==
    IF a = {} \/ b = {} THEN 0
    ELSE (Cardinality(a \cap b) * One) \div Cardinality(a \cup b)

\* a result of the vector store holds a distance, a score or neither
_base_relevance(result) ==
    IF result.distance # None
    THEN (One * One) \div (One + Max2(0, result.distance[1]))
    ELSE IF result.score # None THEN result.score[1]
    ELSE 0

S_chunk ==
    <<"-", "c", "h", "u", "n", "k">>

\* format(i, "04d")
RECURSIVE ZeroPad(_, _)
ZeroPad(digits, width) ==
    IF Len(digits) >= width THEN digits ELSE ZeroPad(<<"0">> \o digits, width)

\* a key with the index not padded
VectorKey_NoPad(s3_key_base, i) == s3_key_base \o S_chunk \o IntToStr(i)

VectorKey(s3_key_base, i) == s3_key_base \o S_chunk \o ZeroPad(IntToStr(i), 4)

(***************************************************************************)
(* vector_service.py: query_vectors_hybrid                                 *)
(***************************************************************************)
\* the scope filter: doc_ids is a list of document ids, empty when no scope
\* is given
ScopeFilter(cands, scope) ==
    LET allowed == {scope[i] : i \in 1..Len(scope)} \ {<<>>}
    IN  IF scope = <<>> \/ allowed = {} THEN cands
        ELSE SelectSeq(cands, LAMBDA c :
                \/ c.metadata.doc_id # <<>> /\ c.metadata.doc_id \in allowed
                \/ /\ c.key # <<>>
                   /\ \E d \in allowed : StartsWith(c.key, d \o S_chunk))

\* the raw similarity, not normalized
norm_sim_Raw(s, base_sims) == s

norm_sim(s, base_sims) ==
    LET min_s == SeqMin(base_sims)
        max_s == SeqMax(base_sims)
    IN  IF max_s = min_s THEN One
        ELSE ((s - min_s) * One) \div (max_s - min_s)

\* the number of occurrences of token t in the list toks
tf(toks, t) == Cardinality({i \in 1..Len(toks) : toks[i] = t})

\* the number of candidates whose tokens hold t
df(doc_tokens_list, t) ==
    Cardinality({j \in 1..Len(doc_tokens_list) : t \in Range(doc_tokens_list[j])})

\* log(1 + (N - f + 0.5) / (f + 0.5)) = log((2N + 2) / (2f + 1))
idf(doc_tokens_list, t) ==
    LET N == Len(doc_tokens_list)
        f == df(doc_tokens_list, t)
    IN  IF f = 0 THEN 0 ELSE Ln(2 * N + 2, 2 * f + 1)

RECURSIVE Bm25Sum(_, _, _, _)
Bm25Sum(q_tokens, toks, doc_tokens_list, denom_norm) ==
    IF q_tokens = <<>> THEN 0
    ELSE LET qt == Head(q_tokens)
             f == tf(toks, qt)
             rest == Bm25Sum(Tail(q_tokens), toks, doc_tokens_list, denom_norm)
         IN  IF f <= 0 THEN rest
             ELSE ((idf(doc_tokens_list, qt) * (f * (BM25_k1 + One)))
                     \div (f * One + denom_norm)) + rest

bm25_scores(q_tokens, doc_tokens_list) ==
    LET N == Len(doc_tokens_list)
        avgdl == (SeqSum([j \in 1..N |-> Len(doc_tokens_list[j])]) * One)
                   \div Max2(1, N)
        score(toks) ==
            IF toks = <<>> THEN 0
            ELSE LET dl == Len(toks)
                     ratio == (dl * One * One) \div Max2(1, avgdl)
                     denom_norm ==
                         (BM25_k1 * (One - BM25_b + ((BM25_b * ratio) \div One)))
                           \div One
                 IN  Bm25Sum(q_tokens, toks, doc_tokens_list, denom_norm)
    IN  IF q_tokens = <<>> THEN [j \in 1..N |-> 0]
        ELSE [j \in 1..N |-> score(doc_tokens_list[j])]

norm_lex(x, lex_raw) ==
    LET mn == SeqMin(lex_raw)
        mx == SeqMax(lex_raw)
    IN  IF mx = mn THEN (IF x > 0 THEN One ELSE 0)
        ELSE ((x - mn) * One) \div (mx - mn)

Hybrid(a, vec, lex) == (a * vec + (One - a) * lex) \div One

\* steps 2 and 3: every candidate gets _vec, _lex, _hybrid and rerank_score
ScoreCandidates(cands, q, a) ==
    LET N == Len(cands)
        base_sims == [i \in 1..N |-> _base_relevance(cands[i])]
        q_tokens == _tokenize_list(q)
        doc_tokens_list ==
            [i \in 1..N |-> _tokenize_list(cands[i].metadata.source_text)]
        lex_raw == bm25_scores(q_tokens, doc_tokens_list)
        scored(i) ==
            LET vec == norm_sim(base_sims[i], base_sims)
                lex == IF lex_raw # <<>> THEN norm_lex(lex_raw[i], lex_raw)
                       ELSE 0
            IN  [key |-> cands[i].key,
                 distance |-> cands[i].distance,
                 score |-> cands[i].score,
                 metadata |-> cands[i].metadata,
                 _vec |-> vec,
                 _lex |-> lex,
                 _hybrid |-> Hybrid(a, vec, lex),
                 rerank_score |-> Hybrid(a, vec, lex)]
    IN  [i \in 1..N |-> scored(i)]

tokens_of(item) == _tokenize(item.metadata.source_text)

\* the largest Jaccard similarity of cand to an item already selected
MaxSim(cand, sel) ==
    SeqMax(<<0>> \o [j \in 1..Len(sel) |->
                        _jaccard(tokens_of(cand), tokens_of(sel[j]))])

\* One * mmr
Mmr(cand, sel, lam) ==
    IF sel = <<>> THEN One * cand._hybrid
    ELSE lam * cand._hybrid - (One - lam) * MaxSim(cand, sel)

\* the index in rem of best_item, 0 when best_item is None: the first item
\* of rem[:ck] whose mmr is the largest, if that is more than -1.0
BestIndex(rem, sel, ck, lam) ==
    LET W == 1..Min2(ck, Len(rem))
        mmr == [i \in W |-> Mmr(rem[i], sel, lam)]
        better == {i \in W : mmr[i] > (0 - One) * One}
    IN  IF better = {} THEN 0
        ELSE CHOOSE i \in better : \A j \in better :
                mmr[j] < mmr[i] \/ (mmr[j] = mmr[i] /\ i <= j)

\* a removal that leaves the list as it is
RemoveAt_Keep(s, i) == s

RemoveAt(s, i) == SubSeq(s, 1, i - 1) \o SubSeq(s, i + 1, Len(s))

ClampCandidateK(ck) == Max2(5, Min2(RETRIEVAL_MAX_CANDIDATES, ck))

\* the while loop of step 4, run to its end
RECURSIVE MmrLoop(_, _, _, _, _)
MmrLoop(sel, rem, k, ck, lam) ==
    IF rem = <<>> \/ Len(sel) >= k THEN sel
    ELSE LET b == BestIndex(rem, sel, ck, lam)
         IN  IF b = 0 THEN sel
             ELSE MmrLoop(Append(sel, rem[b]), RemoveAt(rem, b), k, ck, lam)

\* query_vectors_hybrid as a function of its arguments and of resp, the list
\* query_vectors returns for the embedding
HybridResult(q, resp, k, ck, a, lam, scope) ==
    LET filtered == ScopeFilter(resp, scope)
    IN  IF filtered = <<>> THEN <<>>
        ELSE LET scored == ScoreCandidates(filtered, q, a)
             IN  SortDescBy(
                     MmrLoop(<<>>, SortDescBy(scored, "_hybrid"), k,
                             ClampCandidateK(ck), lam),
                     "_hybrid")

\* the call, step by step
HybridNoCandidates ==
    /\ hpc = "start"
    /\ response = <<>>
    /\ hy_result' = <<>>
    /\ hpc' = "done"
    /\ UNCHANGED <<query_text, top_k, candidate_k, alpha, lambda_mmr, doc_ids,
                   response, candidates, selected, remaining>>
    /\ UNCHANGED otherThanHybrid

HybridScopeEmpty ==
    /\ hpc = "start"
    /\ response # <<>>
    /\ ScopeFilter(response, doc_ids) = <<>>
    /\ hy_result' = <<>>
    /\ hpc' = "done"
    /\ UNCHANGED <<query_text, top_k, candidate_k, alpha, lambda_mmr, doc_ids,
                   response, candidates, selected, remaining>>
    /\ UNCHANGED otherThanHybrid

HybridScore ==
    /\ hpc = "start"
    /\ ScopeFilter(response, doc_ids) # <<>>
    /\ candidate_k' = ClampCandidateK(candidate_k)
    /\ candidates' = ScoreCandidates(ScopeFilter(response, doc_ids),
                                     query_text, alpha)
    /\ selected' = <<>>
    /\ remaining' = SortDescBy(candidates', "_hybrid")
    /\ hpc' = "mmr"
    /\ UNCHANGED <<query_text, top_k, alpha, lambda_mmr, doc_ids, response,
                   hy_result>>
    /\ UNCHANGED otherThanHybrid

LoopGoesOn == remaining # <<>> /\ Len(selected) < top_k

HybridPick ==
    /\ hpc = "mmr"
    /\ LoopGoesOn
    /\ LET b == BestIndex(remaining, selected, candidate_k, lambda_mmr)
       IN  /\ b # 0
           /\ selected' = Append(selected, remaining[b])
           /\ remaining' = RemoveAt(remaining, b)
    /\ UNCHANGED <<query_text, top_k, candidate_k, alpha, lambda_mmr, doc_ids,
                   response, candidates, hpc, hy_result>>
    /\ UNCHANGED otherThanHybrid

HybridReturn ==
    /\ hpc = "mmr"
    /\ \/ ~LoopGoesOn
       \/ BestIndex(remaining, selected, candidate_k, lambda_mmr) = 0
    /\ hy_result' = SortDescBy(selected, "_hybrid")
    /\ hpc' = "done"
    /\ UNCHANGED <<query_text, top_k, candidate_k, alpha, lambda_mmr, doc_ids,
                   response, candidates, selected, remaining>>
    /\ UNCHANGED otherThanHybrid

HybridNext ==
    \/ HybridNoCandidates
    \/ HybridScopeEmpty
    \/ HybridScore
    \/ HybridPick
    \/ HybridReturn

(***************************************************************************)
(* vector_service.py: rerank_results                                       *)
(***************************************************************************)
K_table ==
   <<"t", "a", "b", "l", "e">>
K_data ==
   <<"d", "a", "t", "a">>
K_figure ==
   <<"f", "i", "g", "u", "r", "e">>
K_chart ==
   <<"c", "h", "a", "r", "t">>
K_row ==
   <<"r", "o", "w">>
K_column ==
   <<"c", "o", "l", "u", "m", "n">>
K_value ==
   <<"v", "a", "l", "u", "e">>
K_what_is ==
   <<"w", "h", "a", "t", " ", "i", "s">>
K_define ==
   <<"d", "e", "f", "i", "n", "e">>
K_definition ==
   <<"d", "e", "f", "i", "n", "i", "t", "i", "o", "n">>
K_meaning ==
   <<"m", "e", "a", "n", "i", "n", "g">>
K_explain ==
   <<"e", "x", "p", "l", "a", "i", "n">>
K_how_to ==
   <<"h", "o", "w", " ", "t", "o">>
K_steps ==
   <<"s", "t", "e", "p", "s">>
K_process ==
   <<"p", "r", "o", "c", "e", "s", "s">>
K_procedure ==
   <<"p", "r", "o", "c", "e", "d", "u", "r", "e">>
K_method ==
   <<"m", "e", "t", "h", "o", "d">>
K_table_start ==
   <<"[", "t", "a", "b", "l", "e", " ", "s", "t", "a", "r", "t", "]">>
K_headers ==
   <<"h", "e", "a", "d", "e", "r", "s", ":">>
K_row_colon ==
   <<"r", "o", "w", ":">>

TableKeywords == {K_table, K_data, K_figure, K_chart, K_row, K_column, K_value}
DefinitionKeywords == {K_what_is, K_define, K_definition, K_meaning, K_explain}
ProcedureKeywords == {K_how_to, K_steps, K_process, K_procedure, K_method}
TableMarkers == {K_table_start, K_headers, K_row_colon}

ContainsAny(s, words) == \E w \in words : Contains(s, w)

\* the score rerank_results gives one result for the query
RerankScore(result, query_lower) ==
    LET is_table_query == ContainsAny(query_lower, TableKeywords)
        is_definition_query == ContainsAny(query_lower, DefinitionKeywords)
        is_procedure_query == ContainsAny(query_lower, ProcedureKeywords)
        content == Lower(result.metadata.source_text)
        content_type == result.metadata.chunk_content_type
        base_score == _base_relevance(result)
        type_boost ==
            IF is_table_query /\ content_type = "table_row" THEN 400
            ELSE IF is_definition_query /\ content_type = "definition" THEN 300
            ELSE IF is_procedure_query /\ content_type = "procedure" THEN 300
            ELSE 0
        table_boost ==
            IF ContainsAny(content, TableMarkers)
            THEN (IF is_table_query THEN 200 ELSE 100)
            ELSE 0
        common_keywords == _tokenize(query_lower) \cap _tokenize(content)
        keyword_boost ==
            IF common_keywords # {}
            THEN Min2(200, Cardinality(common_keywords) * 50)
            ELSE 0
    IN  (base_score * (One + type_boost + table_boost + keyword_boost))
          \div One

rerank_results(results, q) ==
    SortDescBy([i \in 1..Len(results) |->
                   [rerank_score |-> RerankScore(results[i], Lower(q))]
                     @@ results[i]],
               "rerank_score")

(***************************************************************************)
(* qa_service.py: ask_with_context                                         *)
(***************************************************************************)
RETRIEVAL_ALPHA == 750
RETRIEVAL_LAMBDA_MMR == 600
RETRIEVAL_CANDIDATE_K == 60
RETRIEVAL_MAX_TOP_K == 30

V_table_data_about ==
   <<"t", "a", "b", "l", "e", " ", "d", "a", "t", "a", " ", "a", "b", "o",
    "u", "t", " ">>
V_tabular_information ==
   <<"t", "a", "b", "u", "l", "a", "r", " ", "i", "n", "f", "o", "r", "m",
    "a", "t", "i", "o", "n", " ", "r", "e", "g", "a", "r", "d", "i", "n",
    "g", " ">>
V_definition_of ==
   <<"d", "e", "f", "i", "n", "i", "t", "i", "o", "n", " ", "o", "f",
    " ">>
V_meaning_of ==
   <<"m", "e", "a", "n", "i", "n", "g", " ", "o", "f", " ">>
X_source ==
   <<"[", "S", "o", "u", "r", "c", "e", " ">>
X_dash ==
   <<" ", "-", " ">>
X_page ==
   <<",", " ", "P", "a", "g", "e", " ">>
X_close ==
   <<"]", "\n">>

\* str.replace(old, new)
RECURSIVE Replace(_, _, _)
Replace(s, old, new) ==
    IF s = <<>> THEN <<>>
    ELSE IF StartsWith(s, old)
    THEN new \o Replace(SubSeq(s, Len(old) + 1, Len(s)), old, new)
    ELSE <<s[1]>> \o Replace(Tail(s), old, new)

\* list(dict.fromkeys(s)): the first occurrence of every element, in order
RECURSIVE FromKeys(_)
FromKeys(s) ==
    IF s = <<>> THEN <<>>
    ELSE LET init == FromKeys(SubSeq(s, 1, Len(s) - 1))
         IN  IF s[Len(s)] \in Range(init) THEN init
             ELSE Append(init, s[Len(s)])

\* s[:n]; a negative n counts from the end
Take(s, n) ==
    IF n >= 0 THEN SubSeq(s, 1, Min2(n, Len(s)))
    ELSE SubSeq(s, 1, Max2(0, Len(s) + n))

_variations(q) ==
    LET ql == Lower(q)
        base == Strip(Replace(Replace(q, K_what_is, <<>>), K_define, <<>>))
        tabular ==
            IF ContainsAny(ql, {K_table, K_data, K_chart, K_figure})
            THEN <<V_table_data_about \o q, V_tabular_information \o q>>
            ELSE <<>>
        defining ==
            IF ContainsAny(ql, {K_what_is, K_define}) /\ base # <<>>
            THEN <<V_definition_of \o base, V_meaning_of \o base>>
            ELSE <<>>
    IN  Take(FromKeys(<<q>> \o tabular \o defining), 4)

EngineTopK(k) == Min2(RETRIEVAL_MAX_TOP_K, Max2(5, k))
EngineCandidateK(k) ==
    Min2(RETRIEVAL_MAX_CANDIDATES, Max2(RETRIEVAL_CANDIDATE_K, k * 3))

\* the key of a result in the merge
unique_key(res) ==
    IF res.key # <<>> THEN res.key
    ELSE res.metadata.filename \o <<"|">> \o res.metadata.chunk_index

\* the index of unique key k in the dict d (its values, in insertion order),
\* 0 when the key is not in it
DedupIndex(d, k) ==
    IF \E i \in 1..Len(d) : unique_key(d[i]) = k
    THEN CHOOSE i \in 1..Len(d) : unique_key(d[i]) = k
    ELSE 0

\* a merge that keeps the first entry of every key
RECURSIVE Dedup_KeepFirst(_, _)
Dedup_KeepFirst(d, rs) ==
    IF rs = <<>> THEN d
    ELSE LET res == Head(rs)
             res_copy == [_score |-> res.rerank_score] @@ res
         IN  IF DedupIndex(d, unique_key(res)) = 0
             THEN Dedup_KeepFirst(Append(d, res_copy), Tail(rs))
             ELSE Dedup_KeepFirst(d, Tail(rs))

\* a merge that keeps the last entry of every key
RECURSIVE Dedup_KeepLast(_, _)
Dedup_KeepLast(d, rs) ==
    IF rs = <<>> THEN d
    ELSE LET res == Head(rs)
             at == DedupIndex(d, unique_key(res))
             res_copy == [_score |-> res.rerank_score] @@ res
         IN  IF at = 0 THEN Dedup_KeepLast(Append(d, res_copy), Tail(rs))
             ELSE Dedup_KeepLast([d EXCEPT ![at] = res_copy], Tail(rs))

\* the loop that fills dedup, from the results rs on
RECURSIVE Dedup(_, _)
Dedup(d, rs) ==
    IF rs = <<>> THEN d
    ELSE LET res == Head(rs)
             at == DedupIndex(d, unique_key(res))
             res_copy == [_score |-> res.rerank_score] @@ res
         IN  IF at = 0 THEN Dedup(Append(d, res_copy), Tail(rs))
             ELSE IF res.rerank_score > d[at]._score
             THEN Dedup([d EXCEPT ![at] = res_copy], Tail(rs))
             ELSE Dedup(d, Tail(rs))

ContextPart(i, result) ==
    X_source \o IntToStr(i) \o X_dash \o result.metadata.filename \o X_page
      \o result.metadata.page_number \o X_close
      \o result.metadata.source_text \o <<"\n">>

Context(results) ==
    Join([i \in 1..Min2(5, Len(results)) |-> ContextPart(i, results[i])],
         <<"\n">>)

S_insufficient == "Insufficient information"

(***************************************************************************)
(* vector_service.py: store_vectors_in_s3 and _put_vectors_batch           *)
(***************************************************************************)
\* name.rsplit(".", 1)[0]
RECURSIVE LastIndexOf(_, _, _)
LastIndexOf(s, c, j) ==
    IF j = 0 THEN 0 ELSE IF s[j] = c THEN j ELSE LastIndexOf(s, c, j - 1)

BaseName(name) ==
    LET j == LastIndexOf(name, ".", Len(name))
    IN  IF j = 0 THEN name ELSE SubSeq(name, 1, j - 1)

\* the entry of vectors_to_store for the chunk at index i
PutVector(name, i, chunk_data, embedding) ==
    [key |-> VectorKey(BaseName(name), i),
     data |-> embedding,
     metadata |->
        [filename |-> Take(name, 60),
         doc_id |-> Take(BaseName(name), 120),
         chunk_index |-> IntToStr(i),
         source_text |-> chunk_data.content,
         chunk_content_type |-> chunk_data.type,
         page_number |-> IF chunk_data.page_number # None
                         THEN IntToStr(chunk_data.page_number[1]) ELSE <<>>,
         section_path |-> Take(chunk_data.section_path, 300)]]

\* the loop over enumerate(processed_chunks), from index i on: a chunk with
\* empty content is skipped and keeps its index
RECURSIVE BuildVectors(_, _, _, _)
BuildVectors(name, chunks, embs, i) ==
    IF i >= Len(chunks) THEN <<>>
    ELSE (IF chunks[i + 1].content = <<>> THEN <<>>
          ELSE <<PutVector(name, i, chunks[i + 1], embs[i + 1])>>)
         \o BuildVectors(name, chunks, embs, i + 1)

\* put_vectors on the index: a vector replaces the stored one of the same key
Upsert(index, vectors) ==
    {v \in index : \A i \in 1..Len(vectors) : v.key # vectors[i].key}
    \cup Range(vectors)

RECURSIVE Pow(_, _)
Pow(x, n) == IF n = 0 THEN 1 ELSE x * Pow(x, n - 1)

(***************************************************************************)
(* Inputs                                                                  *)
(***************************************************************************)
L_blank ==
   <<>>
L_text ==
   <<"a", "b">>
L_rule ==
   <<"_", "_", "_", "_">>
L_long ==
   <<"a", "b", "c", " ", "d", "e", "f", "g">>
L_heading ==
   <<"#", " ", "H">>
L_footer ==
   <<"A", "w", "a", "r", "d", " ", "C", "o", "d", "e", ":", " ", "Z", " ",
    "7">>
L_title ==
   <<"T", "a", "b", "l", "e", " ", "1">>
L_header ==
   <<"|", "N", "|", "A", "|">>
L_row ==
   <<"|", "x", "|", "3", "|">>

L_h1_A ==
   <<"#", " ", "A">>
L_h2_B ==
   <<"#", "#", " ", "B">>
L_h3_C ==
   <<"#", "#", "#", " ", "C">>
L_h1_none ==
   <<"#">>

\* headings of three levels, a heading without text, a paragraph line and
\* a blank line
HeadingLinePool == {L_h1_A, L_h2_B, L_h3_C, L_h1_none, L_text, L_blank}

\* a caption, the header line and a data line of a table, a paragraph line
\* and a blank line
CaptionLinePool == {L_title, L_header, L_row, L_text, L_blank}

L_x ==
   <<"x">>
L_means ==
   <<"m", "e", "a", "n", "s">>
L_bold_means_x ==
   <<"*", "*", "M", "e", "a", "n", "s", "*", "*", " ", "x">>
L_Steps ==
   <<"S", "t", "e", "p", "s">>
L_refers_to ==
   <<"r", "e", "f", "e", "r", "s", " ", "t", "o">>

\* the lines of a paragraph: words with and without a cue, one in bold
CueLinePool == {L_x, L_means, L_bold_means_x, L_Steps, L_refers_to}

L_footer_12 ==
   <<"a", "w", "a", "r", "d", " ", "c", "o", "d", "e", ":", " ", " ", "y",
    " ", "1", "2", " ">>

\* two page footers, a paragraph line and the header and a data line of a
\* table
FooterLinePool == {L_footer, L_footer_12, L_text, L_header, L_row}

LinePool ==
    {L_blank, L_text, L_rule, L_long, L_heading, L_footer, L_title, L_header,
     L_row}

R_header ==
   <<"|", "N", "a", "m", "e", "|", "A", "g", "e", "|">>
R_alice ==
   <<"|", "A", "l", "i", "c", "e", "|", "3", "0", "|">>
R_short ==
   <<"|", "B", "o", "b", "|">>
R_edge ==
   <<"|", "B", "o", "b", "|", "|">>
R_wide ==
   <<"|", "B", "o", "b", "|", "3", "0", "|", "x", "|">>
R_sep ==
   <<"|", "-", "-", "-", "|", "-", "-", "-", "|">>
R_sep_spaced ==
   <<"|", " ", "-", "-", "-", " ", "|", " ", "-", "-", "-", " ", "|">>
R_markup ==
   <<"|", "*", "*", "*", "*", "|", "*", "*", "*", "*", "|">>

RowPool ==
    {R_alice, R_short, R_wide, R_edge, R_sep, R_sep_spaced, R_markup}

\* all sequences over S of length at most n
RECURSIVE SeqsOfLen(_, _)
SeqsOfLen(S, n) ==
    IF n = 0 THEN {<<>>}
    ELSE {<<x>> \o t : x \in S, t \in SeqsOfLen(S, n - 1)}

SeqsUpTo(S, n) == UNION {SeqsOfLen(S, k) : k \in 0..n}

\* the configurations _ParagraphSplitter accepts: overlap < size
SplitConfigs ==
    {cfg \in ((MaxChunkSize - 1)..MaxChunkSize) \X (0..MaxChunkSize) :
        cfg[2] < cfg[1]}

\* the heading stack, page and caption a block can be flushed under
S_H ==
   <<"H">>
S_Table_1 ==
   <<"T", "a", "b", "l", "e", " ", "1">>
FlushContexts ==
    {<<<<>>, None, None>>,
     <<<<S_H>>, Some(7), None>>,
     <<<<>>, None, Some(S_Table_1)>>}

ParaAlphabet == {"a", "b", " "}

\* ---- the vector store and the calls of query_vectors_hybrid ----
D_a ==
   <<"a">>
D_b ==
   <<"b">>
D_a_chunkb ==
   <<"a", "-", "c", "h", "u", "n", "k", "b">>
T_cat_sat ==
   <<"c", "a", "t", " ", "s", "a", "t">>
T_dog ==
   <<"d", "o", "g">>
T_the_cat ==
   <<"T", "h", "e", " ", "c", "a", "t">>
Q_cat ==
   <<"c", "a", "t">>
Q_the ==
   <<"t", "h", "e">>
Q_define_cat ==
   <<"d", "e", "f", "i", "n", "e", " ", "c", "a", "t">>
Q_what_is_data ==
   <<"w", "h", "a", "t", " ", "i", "s", " ", "d", "a", "t", "a">>
Q_define ==
   <<"d", "e", "f", "i", "n", "e">>
S_pdf ==
   <<".", "p", "d", "f">>

\* the vector store_vectors_in_s3 writes for chunk i of document doc
StoredVector(doc, i, text, type) ==
    [key |-> VectorKey(doc, i),
     metadata |-> [filename |-> doc \o S_pdf, doc_id |-> doc,
                   chunk_index |-> IntToStr(i), source_text |-> text,
                   chunk_content_type |-> type, page_number |-> <<>>]]

\* a vector written before doc_id was part of the metadata
LegacyVector(doc, i, text, type) ==
    [StoredVector(doc, i, text, type) EXCEPT !.metadata.doc_id = <<>>]

\* the index holds the chunks of the documents a, b and a-chunkb
StoredVectors ==
    <<StoredVector(D_a_chunkb, 0, T_the_cat, "text_paragraph"),
      StoredVector(D_b, 0, T_dog, "table_row"),
      LegacyVector(D_a, 1, T_cat_sat, "definition"),
      StoredVector(D_a, 0, T_cat_sat, "text_paragraph")>>

DistancePool == {0, 1000, 3000}
ScorePool == {250, 500}

\* what the store reports with the n vectors of a response, nearest first:
\* their distances, their scores, or neither
Relevances(n) ==
    {[i \in 1..n |-> [distance |-> Some(d[i]), score |-> None]] :
        d \in {x \in SeqsOfLen(DistancePool, n) :
                  \A i \in 1..(n - 1) : x[i] <= x[i + 1]}}
    \cup
    {[i \in 1..n |-> [distance |-> None, score |-> Some(s[i])]] :
        s \in {x \in SeqsOfLen(ScorePool, n) :
                  \A i \in 1..(n - 1) : x[i] >= x[i + 1]}}
    \cup
    {[i \in 1..n |-> [distance |-> None, score |-> None]]}

\* the lists query_vectors can return: at most MaxCand distinct vectors,
\* here in the order of StoredVectors
Responses ==
    UNION {{[i \in 1..n |-> [key |-> StoredVectors[at[i]].key,
                             distance |-> rel[i].distance,
                             score |-> rel[i].score,
                             metadata |-> StoredVectors[at[i]].metadata]] :
              at \in {x \in SeqsOfLen(1..Len(StoredVectors), n) :
                         \A i \in 1..(n - 1) : x[i] < x[i + 1]},
              rel \in Relevances(n)} : n \in 0..MaxCand}

QueryPool == {Q_cat, Q_the}
AlphaPool == {0, 750}
LambdaPool == {0, 600, 1000}
ScopePool == {<<>>, <<D_a>>, <<D_b, <<>>>>, <<<<>>>>}

\* ---- the calls of ask_with_context ----
AskQueryPool == {Q_cat, Q_define, Q_define_cat, Q_what_is_data}
AskScopePool == {<<>>, <<D_a>>}

\* the request names no session, one without documents, or one with
\* document a
AskSessionPool ==
    {None, Some([document_ids |-> <<>>]), Some([document_ids |-> <<D_a>>])}

\* x or y
Or(x, y) == IF x = <<>> THEN y ELSE x

\* the scope the route passes on for a session
RouteDocIds(s) == Or(s[1].document_ids, None)

\* what query_vectors returns for the embedding of a variation: chunk 0 of
\* document a, chunk 0 of document b, both or neither, the nearest at
\* distance 0
AskKeys == {VectorKey(D_a, 0), VectorKey(D_b, 0)}

AskResponses ==
    {r \in Responses :
        /\ Len(r) <= 2
        /\ \A i \in 1..Len(r) :
              /\ r[i].key \in AskKeys
              /\ r[i].distance # None
              /\ r[i].distance[1] <= 1000
        /\ r # <<>> => r[1].distance = Some(0)}

\* one turn of the loop over the variations: the engine runs on the variation
\* with what query_vectors returns for its embedding
AskVariant ==
    /\ apc = "variants"
    /\ vi <= Len(variations)
    /\ \E resp \in AskResponses :
          LET var_text == variations[vi]
              var_results ==
                  HybridResult(var_text, resp, EngineTopK(ask_top_k),
                               EngineCandidateK(ask_top_k), RETRIEVAL_ALPHA,
                               RETRIEVAL_LAMBDA_MMR, ask_doc_ids)
              reranked ==
                  IF use_reranking THEN rerank_results(var_results, var_text)
                  ELSE var_results
          IN  /\ all_results' = all_results \o reranked
              /\ var_results_seen' = Append(var_results_seen, reranked)
    /\ vi' = vi + 1
    /\ UNCHANGED <<query, ask_top_k, use_reranking, ask_doc_ids, sess,
                   variations,
                   dedup, ask_return, apc>>
    /\ UNCHANGED answerVars
    /\ UNCHANGED otherThanAsk

AskInsufficient ==
    /\ apc = "variants"
    /\ vi > Len(variations)
    /\ all_results = <<>>
    /\ ask_return' = [answer |-> S_insufficient, context |-> <<>>]
    /\ apc' = "done"
    /\ UNCHANGED <<query, ask_top_k, use_reranking, ask_doc_ids, sess,
                   variations,
                   vi, all_results, dedup>>
    /\ UNCHANGED answerVars
    /\ UNCHANGED var_results_seen
    /\ UNCHANGED otherThanAsk

AskMerge ==
    /\ apc = "variants"
    /\ vi > Len(variations)
    /\ all_results # <<>>
    /\ dedup' = Dedup(<<>>, all_results)
    /\ LET results == Take(SortDescBy(dedup', "_score"), ask_top_k)
       IN  ask_return' = [context |-> Context(results), results |-> results]
    /\ apc' = "done"
    /\ UNCHANGED <<query, ask_top_k, use_reranking, ask_doc_ids, sess,
                   variations,
                   vi, all_results>>
    /\ UNCHANGED answerVars
    /\ UNCHANGED var_results_seen
    /\ UNCHANGED otherThanAsk

\* ---- answer_with_context and the route /ask-with-context ----
\* the texts of the exceptions of the embedding provider and of query_vectors
E_embeddings == "Could not connect to Ollama for embeddings."
E_query_vectors == "An error occurred when calling the QueryVectors operation"

\* what generate_answer can return for a context
AnswerPool == {S_insufficient, "The cat sat."}

\* answer_with_context calls generate_answer unless the context is blank
NeedsGeneration_Always(context) == TRUE

NeedsGeneration(context) == Strip(context) # <<>>

\* f"Error generating answer: {str(e)}"
ErrorDetail(e) == <<"Error generating answer: ", e>>

\* create_embeddings_batch raises: ask_with_context and answer_with_context
\* have no handler, the exception reaches the route
AskEmbeddingsFail ==
    /\ apc = "variants"
    /\ vi = 1
    /\ fault' = Some(E_embeddings)
    /\ apc' = "raised"
    /\ UNCHANGED <<query, ask_top_k, use_reranking, ask_doc_ids, sess,
                   variations,
                   vi, all_results, dedup, ask_return>>
    /\ UNCHANGED <<answer, generate_calls, route_response>>
    /\ UNCHANGED var_results_seen
    /\ UNCHANGED otherThanAsk

\* query_vectors raises for a variation: query_vectors_hybrid has no
\* handler either
AskQueryVectorsFail ==
    /\ apc = "variants"
    /\ vi <= Len(variations)
    /\ fault' = Some(E_query_vectors)
    /\ apc' = "raised"
    /\ UNCHANGED <<query, ask_top_k, use_reranking, ask_doc_ids, sess,
                   variations,
                   vi, all_results, dedup, ask_return>>
    /\ UNCHANGED <<answer, generate_calls, route_response>>
    /\ UNCHANGED var_results_seen
    /\ UNCHANGED otherThanAsk

\* answer_with_context, after ask_with_context has returned
AnswerInsufficient ==
    /\ apc = "done"
    /\ ~NeedsGeneration(ask_return.context)
    /\ answer' = Some(S_insufficient)
    /\ apc' = "answered"
    /\ UNCHANGED <<query, ask_top_k, use_reranking, ask_doc_ids, sess,
                   variations,
                   vi, all_results, dedup, ask_return>>
    /\ UNCHANGED <<fault, generate_calls, route_response>>
    /\ UNCHANGED var_results_seen
    /\ UNCHANGED otherThanAsk

AnswerGenerate ==
    /\ apc = "done"
    /\ NeedsGeneration(ask_return.context)
    /\ generate_calls' = Append(generate_calls, ask_return.context)
    /\ \E a \in AnswerPool : answer' = Some(a)
    /\ apc' = "answered"
    /\ UNCHANGED <<query, ask_top_k, use_reranking, ask_doc_ids, sess,
                   variations,
                   vi, all_results, dedup, ask_return>>
    /\ UNCHANGED <<fault, route_response>>
    /\ UNCHANGED var_results_seen
    /\ UNCHANGED otherThanAsk

\* the route returns the answer
RouteAnswer ==
    /\ apc = "answered"
    /\ route_response' = [status |-> 200, answer |-> answer[1]]
    /\ apc' = "responded"
    /\ UNCHANGED <<query, ask_top_k, use_reranking, ask_doc_ids, sess,
                   variations,
                   vi, all_results, dedup, ask_return>>
    /\ UNCHANGED <<fault, answer, generate_calls>>
    /\ UNCHANGED var_results_seen
    /\ UNCHANGED otherThanAsk

\* the route turns an exception into an HTTPException
RouteError ==
    /\ apc = "raised"
    /\ route_response' = [status |-> 500, detail |-> ErrorDetail(fault[1])]
    /\ apc' = "responded"
    /\ UNCHANGED <<query, ask_top_k, use_reranking, ask_doc_ids, sess,
                   variations,
                   vi, all_results, dedup, ask_return>>
    /\ UNCHANGED <<fault, answer, generate_calls>>
    /\ UNCHANGED var_results_seen
    /\ UNCHANGED otherThanAsk

AskNext ==
    \/ AskVariant
    \/ AskInsufficient
    \/ AskMerge
    \/ AskEmbeddingsFail
    \/ AskQueryVectorsFail
    \/ AnswerInsufficient
    \/ AnswerGenerate
    \/ RouteAnswer
    \/ RouteError

\* ---- the ingestions ----
F_a_pdf ==
   <<"a", ".", "p", "d", "f">>
F_b ==
   <<"b">>

FilePool == {F_a_pdf, F_b}

\* chunks as split_text returns them; one has empty content
ChunkPool ==
    {Chunk(T_dog, "table_row", Some(7), S_H),
     Chunk(<<>>, "text_paragraph", None, <<>>)}

ChunkSeqs == SeqsUpTo(ChunkPool, MaxChunks)

\* what a file gives when it is ingested again: the same chunks, the same
\* without the last one, or the same and one more
ChunksAgain(chunks) ==
    {c \in ChunkSeqs :
        \/ c = chunks
        \/ Len(c) + 1 = Len(chunks) /\ c = SubSeq(chunks, 1, Len(c))
        \/ Len(c) = Len(chunks) + 1 /\ chunks = SubSeq(c, 1, Len(chunks))}

BatchSizePool == {1, 2}
BackoffFactorPool == {2, 61}

\* the error codes the store answers with
ErrorCodes ==
    {"Throttling", "TooManyRequestsException", "ResourceNotFoundException",
     "AccessDeniedException"}

\* the codes _put_vectors_batch and _delete_vectors_batch retry on
PutThrottlingCodes_Any == ErrorCodes

PutThrottlingCodes == {"Throttling", "ThrottlingException"}

DeleteThrottlingCodes ==
    {"Throttling", "ThrottlingException", "TooManyRequestsException",
     "RequestLimitExceeded"}

\* code in {...} and attempt <= settings.VECTOR_STORAGE_MAX_RETRIES
MayRetry_OnceMore(code, codes, n) ==
    code \in codes /\ n <= VECTOR_STORAGE_MAX_RETRIES + 1

MayRetry(code, codes, n) ==
    code \in codes /\ n <= VECTOR_STORAGE_MAX_RETRIES

batch == SubSeq(vectors_to_store, batch_start + 1,
                Min2(batch_start + VECTOR_PUT_BATCH_SIZE, Len(vectors_to_store)))

StoreRejected ==
    /\ stpc = "start"
    /\ processed_chunks = <<>> \/ Len(processed_chunks) # Len(embeddings)
    /\ stpc' = "rejected"
    /\ UNCHANGED <<filename, processed_chunks, embeddings, vectors_to_store,
                   batch_start, attempt, slept, vector_store, doc_metadata,
                   ingest_log, ingestions, VECTOR_PUT_BATCH_SIZE,
                   VECTOR_STORAGE_MAX_RETRIES, VECTOR_STORAGE_BACKOFF_FACTOR>>
    /\ UNCHANGED <<store_calls, faulted, deleteVars>>
    /\ UNCHANGED otherThanStore

StoreBuild ==
    /\ stpc = "start"
    /\ processed_chunks # <<>> /\ Len(processed_chunks) = Len(embeddings)
    /\ vectors_to_store' = BuildVectors(filename, processed_chunks, embeddings, 0)
    /\ batch_start' = 0
    /\ attempt' = 1
    /\ slept' = <<>>
    /\ stpc' = "put"
    /\ UNCHANGED <<filename, processed_chunks, embeddings, vector_store,
                   doc_metadata, ingest_log, ingestions, VECTOR_PUT_BATCH_SIZE,
                   VECTOR_STORAGE_MAX_RETRIES, VECTOR_STORAGE_BACKOFF_FACTOR>>
    /\ store_calls' = <<>>
    /\ UNCHANGED <<faulted, deleteVars>>
    /\ UNCHANGED otherThanStore

InPut == stpc = "put" /\ batch_start < Len(vectors_to_store)

\* put_vectors succeeds: the loop goes to the next batch
PutBatchOk ==
    /\ InPut
    /\ vector_store' = Upsert(vector_store, batch)
    /\ batch_start' = batch_start + VECTOR_PUT_BATCH_SIZE
    /\ attempt' = 1
    /\ slept' = <<>>
    /\ UNCHANGED <<filename, processed_chunks, embeddings, vectors_to_store,
                   doc_metadata, ingest_log, ingestions, stpc,
                   VECTOR_PUT_BATCH_SIZE, VECTOR_STORAGE_MAX_RETRIES,
                   VECTOR_STORAGE_BACKOFF_FACTOR>>
    /\ store_calls' = <<>>
    /\ UNCHANGED <<faulted, deleteVars>>
    /\ UNCHANGED otherThanStore

\* put_vectors is throttled and an attempt is left: sleep, then try again
\* the delay _put_vectors_batch takes before the retry after attempt n
PutBackoff(factor, n) == Pow(factor, n - 1)

\* the largest delay _delete_vectors_batch takes
BACKOFF_CAP == 60

\* the delay _delete_vectors_batch takes before the retry after attempt n
DeleteBackoff(factor, n) == Min2(BACKOFF_CAP, Pow(factor, n - 1))

PutBatchThrottled ==
    /\ InPut
    /\ \E code \in ErrorCodes :
          /\ MayRetry(code, PutThrottlingCodes, attempt)
          /\ store_calls' = Append(store_calls, code)
    /\ slept' = Append(slept, PutBackoff(VECTOR_STORAGE_BACKOFF_FACTOR, attempt))
    /\ attempt' = attempt + 1
    /\ faulted' = TRUE
    /\ UNCHANGED deleteVars
    /\ UNCHANGED <<filename, processed_chunks, embeddings, vectors_to_store,
                   batch_start, vector_store, doc_metadata, ingest_log,
                   ingestions, stpc, VECTOR_PUT_BATCH_SIZE,
                   VECTOR_STORAGE_MAX_RETRIES, VECTOR_STORAGE_BACKOFF_FACTOR>>
    /\ UNCHANGED otherThanStore

\* put_vectors is throttled and no attempt is left: the error is raised
PutBatchThrottledOut ==
    /\ InPut
    /\ \E code \in ErrorCodes \cap PutThrottlingCodes :
          /\ ~MayRetry(code, PutThrottlingCodes, attempt)
          /\ store_calls' = Append(store_calls, code)
    /\ stpc' = "throttled_out"
    /\ faulted' = TRUE
    /\ UNCHANGED deleteVars
    /\ UNCHANGED <<filename, processed_chunks, embeddings, vectors_to_store,
                   batch_start, attempt, slept, vector_store, doc_metadata,
                   ingest_log, ingestions, VECTOR_PUT_BATCH_SIZE,
                   VECTOR_STORAGE_MAX_RETRIES, VECTOR_STORAGE_BACKOFF_FACTOR>>
    /\ UNCHANGED otherThanStore

\* put_vectors fails with another error code: the error is raised
PutBatchFatal ==
    /\ InPut
    /\ \E code \in ErrorCodes \ PutThrottlingCodes :
          store_calls' = Append(store_calls, code)
    /\ stpc' = "fatal"
    /\ faulted' = TRUE
    /\ UNCHANGED deleteVars
    /\ UNCHANGED <<filename, processed_chunks, embeddings, vectors_to_store,
                   batch_start, attempt, slept, vector_store, doc_metadata,
                   ingest_log, ingestions, VECTOR_PUT_BATCH_SIZE,
                   VECTOR_STORAGE_MAX_RETRIES, VECTOR_STORAGE_BACKOFF_FACTOR>>
    /\ UNCHANGED otherThanStore

\* what the ingestion leaves behind, for the log
Ingested ==
    [filename |-> filename, chunks |-> processed_chunks,
     keys |-> {v.key : v \in vector_store}]

\* all batches are stored: store_vectors_in_s3 returns the number of vectors
\* and process_pdf_and_store records it as the document's total_chunks
StoreReturn ==
    /\ stpc = "put"
    /\ batch_start >= Len(vectors_to_store)
    /\ doc_metadata' =
          {m \in doc_metadata : m.s3_key # BaseName(filename)}
          \cup {[s3_key |-> BaseName(filename),
                 total_chunks |-> Len(vectors_to_store),
                 status |-> "active"]}
    /\ ingest_log' = Append(ingest_log, Ingested)
    /\ stpc' = "done"
    /\ UNCHANGED <<filename, processed_chunks, embeddings, vectors_to_store,
                   batch_start, attempt, slept, vector_store, ingestions,
                   VECTOR_PUT_BATCH_SIZE, VECTOR_STORAGE_MAX_RETRIES,
                   VECTOR_STORAGE_BACKOFF_FACTOR>>
    /\ UNCHANGED <<store_calls, faulted, deleteVars>>
    /\ UNCHANGED otherThanStore

\* the same, but store_document_metadata fails: a warning is logged
StoreReturnNoMetadata ==
    /\ stpc = "put"
    /\ batch_start >= Len(vectors_to_store)
    /\ ingest_log' = Append(ingest_log, Ingested)
    /\ stpc' = "done"
    /\ UNCHANGED <<filename, processed_chunks, embeddings, vectors_to_store,
                   batch_start, attempt, slept, vector_store, doc_metadata,
                   ingestions, VECTOR_PUT_BATCH_SIZE,
                   VECTOR_STORAGE_MAX_RETRIES, VECTOR_STORAGE_BACKOFF_FACTOR>>
    /\ faulted' = TRUE
    /\ UNCHANGED <<store_calls, deleteVars>>
    /\ UNCHANGED otherThanStore

\* the same file is ingested again
StoreAgain ==
    /\ stpc \in {"done", "rejected", "throttled_out", "fatal"}
    /\ ingestions < MaxIngestions
    /\ \E chunks \in ChunksAgain(processed_chunks) :
          /\ processed_chunks' = chunks
          /\ embeddings' = [i \in 1..Len(chunks) |-> i]
    /\ ingestions' = ingestions + 1
    /\ vectors_to_store' = <<>>
    /\ batch_start' = 0
    /\ attempt' = 1
    /\ slept' = <<>>
    /\ stpc' = "start"
    /\ UNCHANGED <<filename, vector_store, doc_metadata, ingest_log,
                   VECTOR_PUT_BATCH_SIZE, VECTOR_STORAGE_MAX_RETRIES,
                   VECTOR_STORAGE_BACKOFF_FACTOR>>
    /\ store_calls' = <<>>
    /\ UNCHANGED <<faulted, deleteVars>>
    /\ UNCHANGED otherThanStore

\* ---- delete_embeddings_and_metadata for the file's document id ----
\* get_vector_keys_by_s3_key: one key per index below total_chunks
KeysOfMetadata(s3_key, metadata) ==
    IF metadata = {} THEN <<>>
    ELSE LET m == CHOOSE x \in metadata : TRUE
         IN  [i \in 1..m.total_chunks |-> VectorKey(s3_key, i - 1)]

MetadataOf(s3_key) == {m \in doc_metadata : m.s3_key = s3_key}

BetweenCalls == stpc \in {"done", "rejected", "throttled_out", "fatal"}

DeleteStart ==
    /\ BetweenCalls
    /\ vector_keys' =
          KeysOfMetadata(BaseName(filename), MetadataOf(BaseName(filename)))
    /\ deleted_count' = 0
    /\ removed_vectors' = 0
    /\ batch_start' = 0
    /\ attempt' = 1
    /\ slept' = <<>>
    /\ store_calls' = <<>>
    /\ stpc' = "delete"
    /\ UNCHANGED <<filename, processed_chunks, embeddings, vectors_to_store,
                   vector_store, doc_metadata, ingest_log, ingestions,
                   faulted, delete_return, VECTOR_PUT_BATCH_SIZE,
                   VECTOR_STORAGE_MAX_RETRIES, VECTOR_STORAGE_BACKOFF_FACTOR>>
    /\ UNCHANGED otherThanStore

\* the metadata object cannot be read: get_vector_keys_by_s3_key returns []
DeleteStartNoKeys ==
    /\ BetweenCalls
    /\ vector_keys' = <<>>
    /\ deleted_count' = 0
    /\ removed_vectors' = 0
    /\ batch_start' = 0
    /\ attempt' = 1
    /\ slept' = <<>>
    /\ store_calls' = <<>>
    /\ faulted' = TRUE
    /\ stpc' = "delete"
    /\ UNCHANGED <<filename, processed_chunks, embeddings, vectors_to_store,
                   vector_store, doc_metadata, ingest_log, ingestions,
                   delete_return, VECTOR_PUT_BATCH_SIZE,
                   VECTOR_STORAGE_MAX_RETRIES, VECTOR_STORAGE_BACKOFF_FACTOR>>
    /\ UNCHANGED otherThanStore

InDelete == stpc = "delete" /\ batch_start < Len(vector_keys)

batch_keys ==
    SubSeq(vector_keys, batch_start + 1,
           Min2(batch_start + VECTOR_PUT_BATCH_SIZE, Len(vector_keys)))

\* the loop of delete_vectors_by_keys goes to the next batch
NextDeleteBatch ==
    /\ batch_start' = batch_start + VECTOR_PUT_BATCH_SIZE
    /\ attempt' = 1
    /\ slept' = <<>>
    /\ store_calls' = <<>>
    /\ stpc' = "delete"

\* delete_vectors succeeds
DeleteBatchOk ==
    /\ InDelete
    /\ vector_store' = {v \in vector_store : v.key \notin Range(batch_keys)}
    /\ deleted_count' = deleted_count + Len(batch_keys)
    /\ removed_vectors' = removed_vectors
          + Cardinality({v \in vector_store : v.key \in Range(batch_keys)})
    /\ NextDeleteBatch
    /\ UNCHANGED <<filename, processed_chunks, embeddings, vectors_to_store,
                   doc_metadata, ingest_log, ingestions, faulted, vector_keys,
                   delete_return, VECTOR_PUT_BATCH_SIZE,
                   VECTOR_STORAGE_MAX_RETRIES, VECTOR_STORAGE_BACKOFF_FACTOR>>
    /\ UNCHANGED otherThanStore

\* delete_vectors is throttled and an attempt is left: sleep, then try again
DeleteBatchThrottled ==
    /\ InDelete
    /\ \E code \in ErrorCodes :
          /\ MayRetry(code, DeleteThrottlingCodes, attempt)
          /\ store_calls' = Append(store_calls, code)
    /\ slept' = Append(slept,
                       DeleteBackoff(VECTOR_STORAGE_BACKOFF_FACTOR, attempt))
    /\ attempt' = attempt + 1
    /\ faulted' = TRUE
    /\ UNCHANGED <<filename, processed_chunks, embeddings, vectors_to_store,
                   batch_start, vector_store, doc_metadata, ingest_log,
                   ingestions, stpc, deleteVars, VECTOR_PUT_BATCH_SIZE,
                   VECTOR_STORAGE_MAX_RETRIES, VECTOR_STORAGE_BACKOFF_FACTOR>>
    /\ UNCHANGED otherThanStore

\* delete_vectors answers ResourceNotFoundException: the call returns
DeleteBatchNotFound ==
    /\ InDelete
    /\ "ResourceNotFoundException" \in ErrorCodes
    /\ ~MayRetry("ResourceNotFoundException", DeleteThrottlingCodes, attempt)
    /\ store_calls' = Append(store_calls, "ResourceNotFoundException")
    /\ stpc' = "delete_not_found"
    /\ faulted' = TRUE
    /\ UNCHANGED <<filename, processed_chunks, embeddings, vectors_to_store,
                   batch_start, attempt, slept, vector_store, doc_metadata,
                   ingest_log, ingestions, deleteVars, VECTOR_PUT_BATCH_SIZE,
                   VECTOR_STORAGE_MAX_RETRIES, VECTOR_STORAGE_BACKOFF_FACTOR>>
    /\ UNCHANGED otherThanStore

\* delete_vectors fails with another code, or is throttled with no attempt
\* left: the error is raised
DeleteBatchRaise ==
    /\ InDelete
    /\ \E code \in ErrorCodes \ {"ResourceNotFoundException"} :
          /\ ~MayRetry(code, DeleteThrottlingCodes, attempt)
          /\ store_calls' = Append(store_calls, code)
    /\ stpc' = "delete_raised"
    /\ faulted' = TRUE
    /\ UNCHANGED <<filename, processed_chunks, embeddings, vectors_to_store,
                   batch_start, attempt, slept, vector_store, doc_metadata,
                   ingest_log, ingestions, deleteVars, VECTOR_PUT_BATCH_SIZE,
                   VECTOR_STORAGE_MAX_RETRIES, VECTOR_STORAGE_BACKOFF_FACTOR>>
    /\ UNCHANGED otherThanStore

\* delete_vectors_by_keys counts the batch of a call that returned
DeleteBatchCounted ==
    /\ stpc = "delete_not_found"
    /\ deleted_count' = deleted_count + Len(batch_keys)
    /\ NextDeleteBatch
    /\ UNCHANGED <<filename, processed_chunks, embeddings, vectors_to_store,
                   vector_store, doc_metadata, ingest_log, ingestions, faulted,
                   vector_keys, delete_return, removed_vectors,
                   VECTOR_PUT_BATCH_SIZE,
                   VECTOR_STORAGE_MAX_RETRIES, VECTOR_STORAGE_BACKOFF_FACTOR>>
    /\ UNCHANGED otherThanStore

\* delete_vectors_by_keys catches the error of a batch and continues
DeleteBatchSkipped ==
    /\ stpc = "delete_raised"
    /\ NextDeleteBatch
    /\ UNCHANGED <<filename, processed_chunks, embeddings, vectors_to_store,
                   vector_store, doc_metadata, ingest_log, ingestions, faulted,
                   deleteVars, VECTOR_PUT_BATCH_SIZE,
                   VECTOR_STORAGE_MAX_RETRIES, VECTOR_STORAGE_BACKOFF_FACTOR>>
    /\ UNCHANGED otherThanStore

\* the metadata object is deleted, or marked as deleted if there is one
DeleteReturn ==
    /\ stpc = "delete"
    /\ batch_start >= Len(vector_keys)
    /\ \E delete_metadata \in BOOLEAN :
          LET s3_key == BaseName(filename)
              meta_deleted == delete_metadata
              meta_marked == ~delete_metadata /\ MetadataOf(s3_key) # {}
          IN  /\ doc_metadata' =
                    IF delete_metadata THEN doc_metadata \ MetadataOf(s3_key)
                    ELSE {IF m.s3_key = s3_key
                          THEN [m EXCEPT !.status = "deleted"] ELSE m :
                             m \in doc_metadata}
              /\ delete_return' =
                    Some(<<Len(vector_keys), meta_deleted, meta_marked>>)
    /\ stpc' = "deleted"
    /\ UNCHANGED <<filename, processed_chunks, embeddings, vectors_to_store,
                   batch_start, attempt, slept, vector_store, ingest_log,
                   ingestions, store_calls, faulted, vector_keys,
                   deleted_count, removed_vectors, VECTOR_PUT_BATCH_SIZE,
                   VECTOR_STORAGE_MAX_RETRIES, VECTOR_STORAGE_BACKOFF_FACTOR>>
    /\ UNCHANGED otherThanStore

\* the metadata store fails: the error is raised
DeleteMetadataFails ==
    /\ stpc = "delete"
    /\ batch_start >= Len(vector_keys)
    /\ faulted' = TRUE
    /\ stpc' = "delete_error"
    /\ UNCHANGED <<filename, processed_chunks, embeddings, vectors_to_store,
                   batch_start, attempt, slept, vector_store, doc_metadata,
                   ingest_log, ingestions, store_calls, deleteVars,
                   VECTOR_PUT_BATCH_SIZE, VECTOR_STORAGE_MAX_RETRIES,
                   VECTOR_STORAGE_BACKOFF_FACTOR>>
    /\ UNCHANGED otherThanStore

StoreNext ==
    \/ DeleteStart
    \/ DeleteStartNoKeys
    \/ DeleteBatchOk
    \/ DeleteBatchThrottled
    \/ DeleteBatchNotFound
    \/ DeleteBatchRaise
    \/ DeleteBatchCounted
    \/ DeleteBatchSkipped
    \/ DeleteReturn
    \/ DeleteMetadataFails
    \/ StoreRejected
    \/ StoreBuild
    \/ PutBatchOk
    \/ PutBatchThrottled
    \/ PutBatchThrottledOut
    \/ PutBatchFatal
    \/ StoreReturn
    \/ StoreReturnNoMetadata
    \/ StoreAgain

(***************************************************************************)
(* embedding_service.py: create_embeddings_batch                           *)
(***************************************************************************)
E_cat_padded ==
   <<" ", "c", "a", "t", "\n">>

\* the texts of a batch: chunk contents or query variations
TextPool == {Q_cat, T_dog, E_cat_padded}

\* the vector the provider answers for a prompt
ProviderEmbedding(prompt) == <<"embedding of", prompt>>

\* _request_embedding: the text is sent with newlines replaced and stripped
create_embedding(text) ==
    ProviderEmbedding(Strip(Replace(text, <<"\n">>, <<" ">>)))

Future(state, result) == [state |-> state, result |-> result]

FuturesIn(state) == {i \in 1..Len(futures) : futures[i].state = state}

\* list(executor.map(...)): the results of the futures in the order of the
\* texts
MapResults_ByArrival(fs, order) ==
    [i \in 1..Len(fs) |-> fs[order[i]].result]

MapResults(fs, order) == [i \in 1..Len(fs) |-> fs[i].result]

InMap == epc \in {"map", "failing"}

\* a free worker takes the first work item of the queue
EmbedStart ==
    /\ InMap
    /\ Cardinality(FuturesIn("running")) < Max2(1, max_workers)
    /\ FuturesIn("pending") # {}
    /\ LET i == CHOOSE k \in FuturesIn("pending") :
                     \A j \in FuturesIn("pending") : k <= j
       IN  futures' = [futures EXCEPT ![i].state = "running"]
    /\ UNCHANGED <<texts, max_workers, arrival, batch_embeddings, epc>>
    /\ UNCHANGED otherThanEmbed

\* a request in flight is answered
EmbedComplete ==
    /\ InMap
    /\ \E i \in FuturesIn("running") :
          /\ futures' =
                [futures EXCEPT ![i] = Future("done", create_embedding(texts[i]))]
          /\ arrival' = Append(arrival, i)
    /\ UNCHANGED <<texts, max_workers, batch_embeddings, epc>>
    /\ UNCHANGED otherThanEmbed

\* a request in flight raises
EmbedFail ==
    /\ InMap
    /\ \E i \in FuturesIn("running") :
          /\ futures' = [futures EXCEPT ![i] = Future("failed", E_embeddings)]
          /\ arrival' = Append(arrival, i)
    /\ UNCHANGED <<texts, max_workers, batch_embeddings, epc>>
    /\ UNCHANGED otherThanEmbed

\* the iteration over the results reaches a failed future: the futures not
\* yet started are cancelled
EmbedCancel ==
    /\ epc = "map"
    /\ \E k \in FuturesIn("failed") :
          \A j \in 1..(k - 1) : futures[j].state = "done"
    /\ futures' =
          [i \in 1..Len(futures) |->
              IF futures[i].state = "pending"
              THEN Future("cancelled", <<>>) ELSE futures[i]]
    /\ epc' = "failing"
    /\ UNCHANGED <<texts, max_workers, arrival, batch_embeddings>>
    /\ UNCHANGED otherThanEmbed

\* the executor has shut down, the exception leaves the call
EmbedRaise ==
    /\ epc = "failing"
    /\ FuturesIn("running") = {}
    /\ epc' = "raised"
    /\ UNCHANGED <<texts, max_workers, futures, arrival, batch_embeddings>>
    /\ UNCHANGED otherThanEmbed

\* every future is done, the executor has shut down: the list is returned
EmbedReturn ==
    /\ epc = "map"
    /\ FuturesIn("done") = 1..Len(futures)
    /\ batch_embeddings' = Some(MapResults(futures, arrival))
    /\ epc' = "returned"
    /\ UNCHANGED <<texts, max_workers, futures, arrival>>
    /\ UNCHANGED otherThanEmbed

EmbedNext ==
    \/ EmbedStart
    \/ EmbedComplete
    \/ EmbedFail
    \/ EmbedCancel
    \/ EmbedRaise
    \/ EmbedReturn

(***************************************************************************)
(* vector_service.py: rerank_results on the chunks of a support contract   *)
(***************************************************************************)
Q_support_plan_duration ==
   <<"w", "h", "a", "t", " ", "i", "s", " ", "t", "h", "e", " ", "s", "u",
    "p", "p", "o", "r", "t", " ", "p", "l", "a", "n", " ", "d", "u", "r",
    "a", "t", "i", "o", "n", "?">>
T_duration_means ==
   <<"D", "u", "r", "a", "t", "i", "o", "n", " ", "m", "e", "a", "n", "s",
    " ", "o", "n", "e", " ", "y", "e", "a", "r", ".">>
T_support_plan ==
   <<"T", "h", "e", " ", "s", "u", "p", "p", "o", "r", "t", " ", "p", "l",
    "a", "n", " ", "i", "s", " ", "r", "e", "n", "e", "w", "e", "d", ".">>
D_plan ==
   <<"p", "l", "a", "n">>

\* the definition chunk and the text_paragraph chunks of the document
DefinitionChunk == StoredVector(D_plan, 0, T_duration_means, "definition")

ParagraphChunks ==
    {StoredVector(D_plan, 1, T_support_plan, "text_paragraph"),
     StoredVector(D_plan, 2, T_dog, "text_paragraph"),
     StoredVector(D_plan, 3, T_the_cat, "text_paragraph")}

\* s with x put in at position p
InsertAt(s, p, x) == SubSeq(s, 1, p - 1) \o <<x>> \o SubSeq(s, p, Len(s))

\* the candidate lists: the definition chunk among MaxParagraphs paragraph
\* chunks, with what the store reports for them
RerankInputs ==
    {[i \in 1..Len(rel) |->
         [key |-> InsertAt(ps, p, DefinitionChunk)[i].key,
          distance |-> rel[i].distance,
          score |-> rel[i].score,
          metadata |-> InsertAt(ps, p, DefinitionChunk)[i].metadata]] :
       ps \in {x \in SeqsOfLen(ParagraphChunks, MaxParagraphs) :
                  \A i, j \in 1..Len(x) : x[i] = x[j] => i = j},
       p \in 1..(MaxParagraphs + 1),
       rel \in Relevances(MaxParagraphs + 1)}

Rerank ==
    /\ rpc = "start"
    /\ rr_ranked' = rerank_results(rr_results, rr_query)
    /\ rpc' = "done"
    /\ UNCHANGED <<rr_query, rr_results>>
    /\ UNCHANGED otherThanRerank

RerankNext == Rerank

(***************************************************************************)
(* prompt_service.py and routes/execute.py: retrieval under a deadline     *)
(***************************************************************************)
\* the timeout of asyncio.wait_for, in seconds
PROMPT_CONTEXT_TIMEOUT == 8
EXECUTE_CONTEXT_TIMEOUT == 12

Timeout(s) ==
    IF s = "generate_dynamic_prompt" THEN PROMPT_CONTEXT_TIMEOUT
    ELSE EXECUTE_CONTEXT_TIMEOUT

\* the context of the dict ask_with_context returns
ContextPool == {<<>>, <<" ">>, Context(<<StoredVectors[2]>>)}

\* wait_for gives up once the timeout has passed
Expired_Never(t, timeout) == FALSE

Expired(t, timeout) == t >= timeout

Tick ==
    /\ dpc = "waiting"
    /\ elapsed < Timeout(site)
    /\ elapsed' = elapsed + 1
    /\ UNCHANGED <<site, retrieval, gen_context, used_context, generation, dpc>>
    /\ UNCHANGED otherThanDeadline

\* ask_with_context returns before the deadline
RetrievalReturns ==
    /\ dpc = "waiting"
    /\ retrieval = "running"
    /\ ~Expired(elapsed, Timeout(site))
    /\ \E c \in ContextPool :
          /\ gen_context' = c
          /\ used_context' = (Strip(c) # <<>>)
    /\ retrieval' = "returned"
    /\ dpc' = "ready"
    /\ UNCHANGED <<site, elapsed, generation>>
    /\ UNCHANGED otherThanDeadline

\* ask_with_context raises before the deadline
RetrievalRaises ==
    /\ dpc = "waiting"
    /\ retrieval = "running"
    /\ ~Expired(elapsed, Timeout(site))
    /\ gen_context' = <<>>
    /\ used_context' = FALSE
    /\ retrieval' = "raised"
    /\ dpc' = "ready"
    /\ UNCHANGED <<site, elapsed, generation>>
    /\ UNCHANGED otherThanDeadline

\* wait_for raises TimeoutError; the call in the executor goes on
DeadlineExpires ==
    /\ dpc = "waiting"
    /\ retrieval = "running"
    /\ Expired(elapsed, Timeout(site))
    /\ gen_context' = <<>>
    /\ used_context' = FALSE
    /\ retrieval' = "abandoned"
    /\ dpc' = "ready"
    /\ UNCHANGED <<site, elapsed, generation>>
    /\ UNCHANGED otherThanDeadline

\* the abandoned call ends, nobody reads its result
AbandonedRetrievalEnds ==
    /\ retrieval = "abandoned"
    /\ retrieval' = "returned_late"
    /\ UNCHANGED <<site, elapsed, gen_context, used_context, generation, dpc>>
    /\ UNCHANGED otherThanDeadline

\* _generate_prompt_sync or generate_answer_with_system_prompt is called
Generate ==
    /\ dpc = "ready"
    /\ generation' = Append(generation, gen_context)
    /\ dpc' = "generated"
    /\ UNCHANGED <<site, elapsed, retrieval, gen_context, used_context>>
    /\ UNCHANGED otherThanDeadline

DeadlineNext ==
    \/ Tick
    \/ RetrievalReturns
    \/ RetrievalRaises
    \/ DeadlineExpires
    \/ AbandonedRetrievalEnds
    \/ Generate

(***************************************************************************)
(* Specifications                                                          *)
(***************************************************************************)
(***************************************************************************)
(* embedding_service.py: _get_session                                      *)
(***************************************************************************)
Callers == 1..MaxCallers

Prefixes == {"http://", "https://"}

\* with _session_lock: the lock can be taken when no caller holds it
Acquirable_Unlocked(holder) == TRUE

Acquirable(holder) == holder = 0

\* the call of caller t returns the session object s
Return(t, s) ==
    /\ returned' =
          returned \cup {[caller |-> t, session |-> s, adapters |-> created[s]]}
    /\ gpc' = [gpc EXCEPT ![t] = "returned"]

\* a thread calls _get_session
GetSessionCall ==
    /\ \E t \in Callers :
          /\ gpc[t] \in {"idle", "returned"}
          /\ calls[t] < MaxCalls
          /\ calls' = [calls EXCEPT ![t] = calls[t] + 1]
          /\ gpc' = [gpc EXCEPT ![t] = "check"]
    /\ UNCHANGED <<_session, _session_lock, created, session, returned>>
    /\ UNCHANGED otherThanSession

\* the first test finds the global set: return it
GetSessionFast ==
    /\ \E t \in Callers :
          /\ gpc[t] = "check"
          /\ _session # None
          /\ Return(t, _session[1])
    /\ UNCHANGED <<_session, _session_lock, created, session, calls>>
    /\ UNCHANGED otherThanSession

\* the first test finds None: go for the lock
GetSessionSlow ==
    /\ \E t \in Callers :
          /\ gpc[t] = "check"
          /\ _session = None
          /\ gpc' = [gpc EXCEPT ![t] = "acquire"]
    /\ UNCHANGED <<_session, _session_lock, created, session, calls, returned>>
    /\ UNCHANGED otherThanSession

GetSessionLock ==
    /\ \E t \in Callers :
          /\ gpc[t] = "acquire"
          /\ Acquirable(_session_lock)
          /\ _session_lock' = t
          /\ gpc' = [gpc EXCEPT ![t] = "locked"]
    /\ UNCHANGED <<_session, created, session, calls, returned>>
    /\ UNCHANGED otherThanSession

\* the second test, under the lock, finds the global set: return it
GetSessionRecheck ==
    /\ \E t \in Callers :
          /\ gpc[t] = "locked"
          /\ _session # None
          /\ Return(t, _session[1])
    /\ _session_lock' = 0
    /\ UNCHANGED <<_session, created, session, calls>>
    /\ UNCHANGED otherThanSession

\* session = requests.Session(), with the Retry and the HTTPAdapter
GetSessionCreate ==
    /\ \E t \in Callers :
          /\ gpc[t] = "locked"
          /\ _session = None
          /\ created' = Append(created, {})
          /\ session' = [session EXCEPT ![t] = Len(created) + 1]
          /\ gpc' = [gpc EXCEPT ![t] = "mount_http"]
    /\ UNCHANGED <<_session, _session_lock, calls, returned>>
    /\ UNCHANGED otherThanSession

\* session.mount("http://", adapter), then session.mount("https://", adapter)
GetSessionMount ==
    /\ \E t \in Callers :
          /\ gpc[t] \in {"mount_http", "mount_https"}
          /\ LET prefix ==
                    IF gpc[t] = "mount_http" THEN "http://" ELSE "https://"
             IN  created' =
                    [created EXCEPT ![session[t]] = @ \cup {prefix}]
          /\ gpc' = [gpc EXCEPT ![t] =
                        IF gpc[t] = "mount_http" THEN "mount_https"
                        ELSE "publish"]
    /\ UNCHANGED <<_session, _session_lock, session, calls, returned>>
    /\ UNCHANGED otherThanSession

\* _session = session
GetSessionPublish ==
    /\ \E t \in Callers :
          /\ gpc[t] = "publish"
          /\ _session' = Some(session[t])
          /\ gpc' = [gpc EXCEPT ![t] = "return"]
    /\ UNCHANGED <<_session_lock, created, session, calls, returned>>
    /\ UNCHANGED otherThanSession

\* return _session, leaving the with block
GetSessionReturn ==
    /\ \E t \in Callers :
          /\ gpc[t] = "return"
          /\ Return(t, _session[1])
    /\ _session_lock' = 0
    /\ UNCHANGED <<_session, created, session, calls>>
    /\ UNCHANGED otherThanSession

SessionNext ==
    \/ GetSessionCall
    \/ GetSessionFast
    \/ GetSessionSlow
    \/ GetSessionLock
    \/ GetSessionRecheck
    \/ GetSessionCreate
    \/ GetSessionMount
    \/ GetSessionPublish
    \/ GetSessionReturn

\* no thread has called _get_session
SessionIdle ==
    /\ _session = None
    /\ _session_lock = 0
    /\ created = <<>>
    /\ gpc = [t \in Callers |-> "off"]
    /\ session = [t \in Callers |-> 0]
    /\ calls = [t \in Callers |-> 0]
    /\ returned = {}

\* the module is loaded and the threads are about to call
SessionStart ==
    /\ _session = None
    /\ _session_lock = 0
    /\ created = <<>>
    /\ gpc = [t \in Callers |-> "idle"]
    /\ session = [t \in Callers |-> 0]
    /\ calls = [t \in Callers |-> 0]
    /\ returned = {}

RerankIdle ==
    /\ rr_query = <<>>
    /\ rr_results = <<>>
    /\ rr_ranked = <<>>
    /\ rpc = "idle"

\* rerank_results is called
RerankStart ==
    /\ rr_query = Q_support_plan_duration
    /\ rr_results \in RerankInputs
    /\ rr_ranked = <<>>
    /\ rpc = "start"

DeadlineIdle ==
    /\ site = "generate_dynamic_prompt"
    /\ elapsed = 0
    /\ retrieval = "running"
    /\ gen_context = <<>>
    /\ used_context = FALSE
    /\ generation = <<>>
    /\ dpc = "idle"

\* ask_with_context has been handed to the executor and wait_for has started
DeadlineStart ==
    /\ site \in {"generate_dynamic_prompt", "execute_with_prompt"}
    /\ elapsed = 0
    /\ retrieval = "running"
    /\ gen_context = <<>>
    /\ used_context = FALSE
    /\ generation = <<>>
    /\ dpc = "waiting"

EmbedIdle ==
    /\ texts = <<>>
    /\ max_workers = 1
    /\ futures = <<>>
    /\ arrival = <<>>
    /\ batch_embeddings = None
    /\ epc = "idle"

\* create_embeddings_batch is called: executor.map has submitted one work
\* item per text
EmbedStartState ==
    /\ texts \in SeqsUpTo(TextPool, MaxTexts)
    /\ max_workers \in 1..MaxWorkers
    /\ futures = [i \in 1..Len(texts) |-> Future("pending", <<>>)]
    /\ arrival = <<>>
    /\ batch_embeddings = None
    /\ epc = "map"

CleanIdle ==
    /\ clean_in = <<>>
    /\ clean_out = <<>>

SplitIdle ==
    /\ chunk_size = 1
    /\ chunk_overlap = 0
    /\ markdown_text = <<>>
    /\ li = 1
    /\ all_chunks = <<>>
    /\ text_buffer = <<>>
    /\ table_buffer = <<>>
    /\ headings = <<>>
    /\ current_page = None
    /\ current_table_title = None
    /\ spc = "idle"

\* split_text is called on a text of at most MaxLines lines
SplitStart ==
    /\ \E cfg \in SplitConfigs : chunk_size = cfg[1] /\ chunk_overlap = cfg[2]
    /\ markdown_text \in {Join(ls, <<"\n">>) : ls \in SeqsUpTo(LinePool, MaxLines)}
    /\ li = 1
    /\ all_chunks = <<>>
    /\ text_buffer = <<>>
    /\ table_buffer = <<>>
    /\ headings = <<>>
    /\ current_page = None
    /\ current_table_title = None
    /\ spc = "loop"

\* split_text is called on at most n lines of pool, one paragraph a chunk
SplitStartOver(pool, n) ==
    /\ chunk_size = MaxChunkSize
    /\ chunk_overlap = 0
    /\ markdown_text \in
           {Join(ls, <<"\n">>) : ls \in SeqsUpTo(pool, n) \ {<<>>}}
    /\ li = 1
    /\ all_chunks = <<>>
    /\ text_buffer = <<>>
    /\ table_buffer = <<>>
    /\ headings = <<>>
    /\ current_page = None
    /\ current_table_title = None
    /\ spc = "loop"

HeadingsStart == SplitStartOver(HeadingLinePool, MaxHeadingLines)

CaptionsStart == SplitStartOver(CaptionLinePool, MaxCaptionLines)
CuesStart == SplitStartOver(CueLinePool, MaxCueLines)
FootersStart == SplitStartOver(FooterLinePool, MaxFooterLines)

\* split_text has read a table block (a header line and data lines) to the
\* end of the text and is about to process it
TableStart ==
    /\ \E cfg \in SplitConfigs : chunk_size = cfg[1] /\ chunk_overlap = cfg[2]
    /\ \E rows \in SeqsUpTo(RowPool, MaxRows), ctx \in FlushContexts :
          /\ table_buffer = <<R_header>> \o rows
          /\ markdown_text = Join(table_buffer, <<"\n">>)
          /\ headings = ctx[1]
          /\ current_page = ctx[2]
          /\ current_table_title = ctx[3]
    /\ li = Len(table_buffer) + 1
    /\ all_chunks = <<>>
    /\ text_buffer = <<>>
    /\ spc = "loop"

\* split_text has read a one-line paragraph to the end of the text and is
\* about to process it
ParaStart ==
    /\ \E cfg \in SplitConfigs : chunk_size = cfg[1] /\ chunk_overlap = cfg[2]
    /\ \E p \in StringsUpTo(ParaAlphabet, MaxParaLen), ctx \in FlushContexts :
          /\ p # <<>>
          /\ Strip(p) = p
          /\ ctx[3] = None
          /\ markdown_text = p
          /\ text_buffer = <<p>>
          /\ headings = ctx[1]
          /\ current_page = ctx[2]
    /\ current_table_title = None
    /\ li = 2
    /\ all_chunks = <<>>
    /\ table_buffer = <<>>
    /\ spc = "loop"

HybridIdle ==
    /\ query_text = <<>>
    /\ top_k = 0
    /\ candidate_k = 0
    /\ alpha = 0
    /\ lambda_mmr = 0
    /\ doc_ids = <<>>
    /\ response = <<>>
    /\ candidates = <<>>
    /\ selected = <<>>
    /\ remaining = <<>>
    /\ hpc = "idle"
    /\ hy_result = <<>>

\* query_vectors_hybrid is called and query_vectors has answered
HybridStart ==
    /\ query_text \in QueryPool
    /\ top_k \in 1..MaxTopK
    /\ candidate_k = 1
    /\ alpha \in AlphaPool
    /\ lambda_mmr \in LambdaPool
    /\ doc_ids \in ScopePool
    /\ response \in Responses
    /\ candidates = <<>>
    /\ selected = <<>>
    /\ remaining = <<>>
    /\ hpc = "start"
    /\ hy_result = <<>>

AskIdle ==
    /\ query = <<>>
    /\ ask_top_k = 0
    /\ use_reranking = FALSE
    /\ ask_doc_ids = <<>>
    /\ sess = None
    /\ variations = <<>>
    /\ vi = 1
    /\ all_results = <<>>
    /\ var_results_seen = <<>>
    /\ dedup = <<>>
    /\ ask_return = <<>>
    /\ apc = "idle"
    /\ fault = None
    /\ answer = None
    /\ generate_calls = <<>>
    /\ route_response = <<>>

\* ask_with_context is called and has computed the variations of the query
AskStart ==
    /\ query \in AskQueryPool
    /\ ask_top_k \in 1..MaxTopK
    /\ use_reranking \in BOOLEAN
    /\ sess \in AskSessionPool
    /\ ask_doc_ids \in
          IF sess = None THEN AskScopePool ELSE {RouteDocIds(sess)}
    /\ variations = _variations(query)
    /\ vi = 1
    /\ all_results = <<>>
    /\ var_results_seen = <<>>
    /\ dedup = <<>>
    /\ ask_return = <<>>
    /\ apc = "variants"
    /\ fault = None
    /\ answer = None
    /\ generate_calls = <<>>
    /\ route_response = <<>>

\* all_results after extending it with each list of ls in turn
RECURSIVE Concat(_)
Concat(ls) == IF ls = <<>> THEN <<>> ELSE Head(ls) \o Concat(Tail(ls))

\* a result of the engine after reranking
Scored(v, s) == [rerank_score |-> s] @@ v

\* the chunks 0..n-1 of document a, the first `high` of them ranked above
\* the others
RankedList(n, high) ==
    [i \in 1..n |->
        Scored(StoredVector(D_a, i - 1, T_dog, "text_paragraph"),
               IF i <= high THEN One \div 2 ELSE One \div 4)]

\* what a later variant adds: nothing, chunk 0 of document a with a better
\* score, or a chunk of document b
LaterListPool ==
    {<<>>,
     <<Scored(StoredVector(D_a, 0, T_dog, "text_paragraph"), (3 * One) \div 4)>>,
     <<Scored(StoredVector(D_b, 0, T_dog, "text_paragraph"), One \div 2)>>}

\* ask_with_context has run the engine on every variation; top_k is the
\* integer of the request (SemanticSearchRequest.top_k has no bounds)
MergeStart ==
    /\ query \in {Q_cat, Q_what_is_data}
    /\ ask_top_k \in -1..MaxMerged
    /\ use_reranking = TRUE
    /\ ask_doc_ids = <<>>
    /\ sess = None
    /\ variations = _variations(query)
    /\ vi = Len(variations) + 1
    /\ \E n \in 0..Min2(MaxMerged, EngineTopK(ask_top_k)), l2, l3, l4 \in LaterListPool :
         \E high \in 0..n :
            var_results_seen =
                Take(<<RankedList(n, high), l2, l3, l4>>, Len(variations))
    /\ all_results = Concat(var_results_seen)
    /\ dedup = <<>>
    /\ ask_return = <<>>
    /\ apc = "variants"
    /\ fault = None
    /\ answer = None
    /\ generate_calls = <<>>
    /\ route_response = <<>>

StoreIdle ==
    /\ VECTOR_PUT_BATCH_SIZE = 1
    /\ VECTOR_STORAGE_MAX_RETRIES = 0
    /\ VECTOR_STORAGE_BACKOFF_FACTOR = 1
    /\ filename = <<>>
    /\ processed_chunks = <<>>
    /\ embeddings = <<>>
    /\ vectors_to_store = <<>>
    /\ batch_start = 0
    /\ attempt = 1
    /\ slept = <<>>
    /\ vector_store = {}
    /\ doc_metadata = {}
    /\ ingestions = 0
    /\ ingest_log = <<>>
    /\ stpc = "idle"
    /\ store_calls = <<>>
    /\ faulted = FALSE
    /\ vector_keys = <<>>
    /\ deleted_count = 0
    /\ delete_return = None
    /\ removed_vectors = 0

\* store_vectors_in_s3 is called with the chunks of a file and as many
\* embeddings, the index being empty
StoreStart ==
    /\ VECTOR_PUT_BATCH_SIZE \in BatchSizePool
    /\ VECTOR_STORAGE_MAX_RETRIES \in 0..MaxRetries
    /\ VECTOR_STORAGE_BACKOFF_FACTOR \in BackoffFactorPool
    /\ filename \in FilePool
    /\ processed_chunks \in ChunkSeqs
    /\ embeddings = [i \in 1..Len(processed_chunks) |-> i]
    /\ vectors_to_store = <<>>
    /\ batch_start = 0
    /\ attempt = 1
    /\ slept = <<>>
    /\ vector_store = {}
    /\ doc_metadata = {}
    /\ ingestions = 1
    /\ ingest_log = <<>>
    /\ stpc = "start"
    /\ store_calls = <<>>
    /\ faulted = FALSE
    /\ vector_keys = <<>>
    /\ deleted_count = 0
    /\ delete_return = None
    /\ removed_vectors = 0

CleanInit == CleanStart /\ SplitIdle /\ HybridIdle /\ AskIdle /\ StoreIdle
    /\ EmbedIdle /\ DeadlineIdle /\ RerankIdle /\ SessionIdle
HeadingsInit ==
    HeadingsStart /\ CleanIdle /\ HybridIdle /\ AskIdle /\ StoreIdle
    /\ EmbedIdle /\ DeadlineIdle /\ RerankIdle /\ SessionIdle
CaptionsInit ==
    CaptionsStart /\ CleanIdle /\ HybridIdle /\ AskIdle /\ StoreIdle
    /\ EmbedIdle /\ DeadlineIdle /\ RerankIdle /\ SessionIdle
CuesInit ==
    CuesStart /\ CleanIdle /\ HybridIdle /\ AskIdle /\ StoreIdle
    /\ EmbedIdle /\ DeadlineIdle /\ RerankIdle /\ SessionIdle
FootersInit ==
    FootersStart /\ CleanIdle /\ HybridIdle /\ AskIdle /\ StoreIdle
    /\ EmbedIdle /\ DeadlineIdle /\ RerankIdle /\ SessionIdle
SplitInit == SplitStart /\ CleanIdle /\ HybridIdle /\ AskIdle /\ StoreIdle
    /\ EmbedIdle /\ DeadlineIdle /\ RerankIdle /\ SessionIdle
TableInit == TableStart /\ CleanIdle /\ HybridIdle /\ AskIdle /\ StoreIdle
    /\ EmbedIdle /\ DeadlineIdle /\ RerankIdle /\ SessionIdle
ParaInit == ParaStart /\ CleanIdle /\ HybridIdle /\ AskIdle /\ StoreIdle
    /\ EmbedIdle /\ DeadlineIdle /\ RerankIdle /\ SessionIdle
HybridInit == HybridStart /\ CleanIdle /\ SplitIdle /\ AskIdle /\ StoreIdle
    /\ EmbedIdle /\ DeadlineIdle /\ RerankIdle /\ SessionIdle
MergeInit == MergeStart /\ CleanIdle /\ SplitIdle /\ HybridIdle /\ StoreIdle
    /\ EmbedIdle /\ DeadlineIdle /\ RerankIdle /\ SessionIdle
AskInit == AskStart /\ CleanIdle /\ SplitIdle /\ HybridIdle /\ StoreIdle
    /\ EmbedIdle /\ DeadlineIdle /\ RerankIdle /\ SessionIdle
StoreInit == StoreStart /\ CleanIdle /\ SplitIdle /\ HybridIdle /\ AskIdle
    /\ EmbedIdle /\ DeadlineIdle /\ RerankIdle /\ SessionIdle

EmbedInit ==
    EmbedStartState /\ CleanIdle /\ SplitIdle /\ HybridIdle /\ AskIdle
    /\ StoreIdle /\ DeadlineIdle /\ RerankIdle /\ SessionIdle

DeadlineInit ==
    DeadlineStart /\ CleanIdle /\ SplitIdle /\ HybridIdle /\ AskIdle
    /\ StoreIdle /\ EmbedIdle /\ RerankIdle /\ SessionIdle

RerankInit ==
    RerankStart /\ CleanIdle /\ SplitIdle /\ HybridIdle /\ AskIdle
    /\ StoreIdle /\ EmbedIdle /\ DeadlineIdle /\ SessionIdle

SessionInit ==
    SessionStart /\ CleanIdle /\ SplitIdle /\ HybridIdle /\ AskIdle
    /\ StoreIdle /\ EmbedIdle /\ DeadlineIdle /\ RerankIdle

CleanNext == CleanOnce \/ CleanTwice

FlushNext == SplitFinish

\* the steps of split_text on headings, paragraph lines and blank lines
HeadingsNext ==
    \/ SplitHeadingLine
    \/ SplitTextLine
    \/ SplitBlankLine
    \/ SplitFinish

SpecClean == CleanInit /\ [][CleanNext]_vars
SpecSplit == SplitInit /\ [][SplitNext]_vars
SpecTable == TableInit /\ [][FlushNext]_vars

\* the steps of split_text on captions, table lines, paragraph lines and
\* blank lines
CaptionsNext ==
    \/ SplitTableTitleLine
    \/ SplitTableLine
    \/ SplitTextLine
    \/ SplitBlankLine
    \/ SplitFinish

\* the steps of split_text on the lines of one paragraph
CuesNext ==
    \/ SplitTextLine
    \/ SplitFinish

\* the steps of split_text on page footers, paragraph and table lines
FootersNext ==
    \/ SplitFooterLine
    \/ SplitTableLine
    \/ SplitTextLine
    \/ SplitFinish

SpecPara == ParaInit /\ [][FlushNext]_vars
SpecFooters == FootersInit /\ [][FootersNext]_vars
SpecCues == CuesInit /\ [][CuesNext]_vars
SpecCaptions == CaptionsInit /\ [][CaptionsNext]_vars
SpecHeadings == HeadingsInit /\ [][HeadingsNext]_vars
SpecHybrid == HybridInit /\ [][HybridNext]_vars
MergeNext ==
    \/ AskInsufficient
    \/ AskMerge

SpecMerge == MergeInit /\ [][MergeNext]_vars
SpecAsk == AskInit /\ [][AskNext]_vars
SpecStore == StoreInit /\ [][StoreNext]_vars
SpecEmbed == EmbedInit /\ [][EmbedNext]_vars
SpecRerank == RerankInit /\ [][RerankNext]_vars
SpecSession == SessionInit /\ [][SessionNext]_vars

\* time passes and the event loop runs; the call in the executor may hang
SpecDeadline ==
    /\ DeadlineInit
    /\ [][DeadlineNext]_vars
    /\ WF_vars(Tick)
    /\ WF_vars(DeadlineExpires)
    /\ WF_vars(Generate)

\* the thread of an ingestion or a deletion keeps running; one file, and
\* one setting of the backoff factor, which MAX_RETRIES does not depend on
StoreFairInit ==
    /\ StoreInit
    /\ filename = F_a_pdf
    /\ VECTOR_STORAGE_BACKOFF_FACTOR = 2

SpecStoreFair ==
    StoreFairInit /\ [][StoreNext]_vars /\ WF_vars(StoreNext)

\* C10: text cleaning is idempotent: for every input string s,
\* _clean_md(_clean_md(s)) equals _clean_md(s).
C10_CleanIdempotent ==
    Len(clean_out) = 2 => clean_out[2] = clean_out[1]


(***************************************************************************)
(* Claims about the chunker                                                *)
(***************************************************************************)
\* the prefix the block at the end of the text is flushed under
FlushPrefix(table_title) ==
    _build_prefix(_section_path(headings), table_title, current_page)

\* a chunk's content without the provenance prefix and its newline
Body(content, prefix) ==
    IF prefix # <<>> /\ StartsWith(content, prefix \o <<"\n">>)
    THEN SubSeq(content, Len(prefix) + 2, Len(content))
    ELSE content

\* C5: every chunk returned by split_text, for any input text, has a
\* non-empty content string.
C5_ContentNeverEmpty ==
    \A i \in 1..Len(all_chunks) : all_chunks[i].content # <<>>

\* the cells of a pipe-delimited line as markdown reads them: the text
\* between the bars, without the bar that opens and the bar that closes
\* the line
MdCells(line) ==
    LET t == Strip(line)
        a == IF StartsWith(t, <<"|">>) THEN Tail(t) ELSE t
        b == IF a # <<>> /\ a[Len(a)] = "|" THEN SubSeq(a, 1, Len(a) - 1) ELSE a
        raw == SplitOn(b, "|")
    IN  [i \in 1..Len(raw) |-> _clean_md(Strip(raw[i]))]

\* a separator row: every cell is dashes, with an optional colon at either end
IsSeparatorCell(c) ==
    LET a == IF c # <<>> /\ Head(c) = ":" THEN Tail(c) ELSE c
        b == IF a # <<>> /\ a[Len(a)] = ":" THEN SubSeq(a, 1, Len(a) - 1) ELSE a
    IN  b # <<>> /\ \A k \in 1..Len(b) : b[k] = "-"

IsSeparatorRow(line) ==
    LET t == Strip(line)
        a == IF StartsWith(t, <<"|">>) THEN Tail(t) ELSE t
        b == IF a # <<>> /\ a[Len(a)] = "|" THEN SubSeq(a, 1, Len(a) - 1) ELSE a
        raw == SplitOn(b, "|")
    IN  \A i \in 1..Len(raw) : IsSeparatorCell(Strip(raw[i]))

\* the "<header>: <cell>" pairs of a row in column order, joined by ". "
RowPairs(hs, cs) ==
    Join([i \in 1..Len(hs) |-> hs[i] \o S_colon_sp \o cs[i]], S_dot_sp)

\* the data rows of the table block: not a separator row, not blank
IsDataRow(line) == Strip(line) # <<>> /\ ~IsSeparatorRow(line)

IsWellFormedRow(line, header) ==
    IsDataRow(line) /\ Len(MdCells(line)) = Len(MdCells(header))

\* C7: within a block of pipe-delimited table lines, the first line gives
\* the column headers, separator rows are skipped, and every remaining data
\* row with as many cells as the header produces exactly one table_row chunk
\* whose content (after the provenance prefix) is the "<header>: <cell>"
\* pairs of its columns in column order joined by ". ".
C7_EveryDataRowOneChunk ==
    (spc = "done" /\ table_buffer # <<>>) =>
        LET header == table_buffer[1]
            rows == SelectSeq(Tail(table_buffer),
                              LAMBDA r : IsWellFormedRow(r, header))
        IN  /\ Len(all_chunks) = Len(rows)
            /\ \A i \in 1..Len(rows) :
                  /\ all_chunks[i].type = "table_row"
                  /\ Body(all_chunks[i].content, FlushPrefix(current_table_title))
                       = RowPairs(MdCells(header), MdCells(rows[i]))

\* a row as markdown writes it, from its cells
RowOf(cells) == <<"|">> \o Join(cells, <<"|">>) \o <<"|">>

\* the cells a malformed row can be completed with
S_30 ==
   <<"3", "0">>
PadCells == {<<>>, S_30}

\* the well-formed versions of a row for a header of n cells: its own
\* cells, cut to n or completed to n with cells of PadCells
WellFormedVersions(line, n) ==
    LET cs == MdCells(line) IN
    IF Len(cs) >= n THEN {RowOf(SubSeq(cs, 1, n))}
    ELSE {RowOf(cs \o pad) : pad \in SeqsOfLen(PadCells, n - Len(cs))}

\* C8: a table data row whose cell count differs from the header's cell
\* count produces no chunk and raises no error, and every other row of the
\* same table still produces its chunk: the number of emitted chunks is
\* exactly one less than for the same table with that row well-formed.
C8_MalformedRowOneLess ==
    (spc = "done" /\ table_buffer # <<>>) =>
        LET header == table_buffer[1]
            n == Len(MdCells(header))
        IN  \A i \in 2..Len(table_buffer) :
               (IsDataRow(table_buffer[i]) /\ Len(MdCells(table_buffer[i])) # n) =>
                  \A r \in WellFormedVersions(table_buffer[i], n) :
                     Len(_process_table_chunk(
                            [table_buffer EXCEPT ![i] = r],
                            _section_path(headings), current_table_title,
                            current_page))
                       = Len(all_chunks) + 1

\* the paragraph at the end of the text, cleaned as _process_text_chunk does
ParaContent == _clean_md(Strip(Join(text_buffer, <<" ">>)))

Suffix(s, n) == SubSeq(s, Len(s) - n + 1, Len(s))
Prefix(s, n) == SubSeq(s, 1, n)

\* C9 (as claimed): for any paragraph whose cleaned length exceeds the
\* configured window size, every two consecutive sub-chunks produced from it
\* share exactly overlap characters of boundary text: the last overlap
\* characters of a sub-chunk are the first overlap characters of the next.
C9_ConsecutiveShareOverlap ==
    (spc = "done" /\ text_buffer # <<>> /\ Len(ParaContent) > chunk_size) =>
        \A k \in 1..(Len(all_chunks) - 1) :
            LET a == Body(all_chunks[k].content, FlushPrefix(None))
                b == Body(all_chunks[k + 1].content, FlushPrefix(None))
            IN  /\ Len(a) >= chunk_overlap
                /\ Len(b) >= chunk_overlap
                /\ Suffix(a, chunk_overlap) = Prefix(b, chunk_overlap)

\* the k-th window (k = 0, 1, ...) of a text: chunk_size characters from
\* offset k * (chunk_size - chunk_overlap), fewer at the end of the text
WindowAt(text, k) ==
    LET from == k * (chunk_size - chunk_overlap)
        to == IF from + chunk_size > Len(text) THEN Len(text)
              ELSE from + chunk_size
    IN  SubSeq(text, from + 1, to)

WindowCount(text) ==
    (Len(text) + (chunk_size - chunk_overlap) - 1)
        \div (chunk_size - chunk_overlap)

\* C9 (amended): the sub-chunks of a paragraph longer than the window size
\* are the windows of chunk_size characters that start every
\* chunk_size - overlap characters, each stripped of surrounding whitespace
\* (a blank one is dropped) and given the provenance prefix; a window of the
\* full chunk_size and the window after it share exactly overlap characters.
\* The last windows, shorter than chunk_size, may share fewer.
C9_FullWindowsShareOverlap ==
    (spc = "done" /\ text_buffer # <<>> /\ Len(ParaContent) > chunk_size) =>
        LET n == WindowCount(ParaContent)
            kept == SelectSeq([k \in 1..n |-> Strip(WindowAt(ParaContent, k - 1))],
                              LAMBDA w : w # <<>>)
        IN  /\ Len(all_chunks) = Len(kept)
            /\ \A i \in 1..Len(kept) :
                  all_chunks[i].content = WithPrefix(FlushPrefix(None), kept[i])
            /\ \A k \in 0..(n - 2) :
                  Len(WindowAt(ParaContent, k)) = chunk_size =>
                     /\ Len(WindowAt(ParaContent, k + 1)) >= chunk_overlap
                     /\ Suffix(WindowAt(ParaContent, k), chunk_overlap)
                          = Prefix(WindowAt(ParaContent, k + 1), chunk_overlap)

\* a paragraph was cut into three or more sub-chunks with a real overlap
C9_Witness ==
    /\ spc = "done"
    /\ text_buffer # <<>>
    /\ Len(ParaContent) > chunk_size
    /\ chunk_overlap >= 1
    /\ Len(all_chunks) >= 3
    /\ Len(WindowAt(ParaContent, 1)) = chunk_size

(***************************************************************************)
(* Claims about query_vectors_hybrid                                       *)
(***************************************************************************)
Keys(results) == [i \in 1..Len(results) |-> results[i].key]

NoDuplicate(s) == \A i, j \in 1..Len(s) : i # j => s[i] # s[j]

\* C1: the list query_vectors_hybrid returns holds no two entries with the
\* same vector key, and it is no longer than min(top_k, the number of
\* candidates left after the scope filter).
C1_NoDuplicateKeyAtMostTopK ==
    hpc = "done" =>
        /\ NoDuplicate(Keys(hy_result))
        /\ Len(hy_result) <= Min2(top_k, Len(ScopeFilter(response, doc_ids)))

\* a call whose scope dropped a candidate and whose top_k cut the rest
C1_Witness ==
    /\ hpc = "done"
    /\ Len(ScopeFilter(response, doc_ids)) < Len(response)
    /\ top_k < Len(ScopeFilter(response, doc_ids))
    /\ Len(hy_result) = top_k

\* the documents of the index, and the one a stored vector is a chunk of
Documents == {D_a, D_b, D_a_chunkb}

OwnerOf(key) ==
    CHOOSE d \in Documents : \E i \in 0..9 : key = VectorKey(d, i)

Allowed == {doc_ids[i] : i \in 1..Len(doc_ids)} \ {<<>>}

\* C2: with a document scope, every candidate that survives the scope filter
\* (by its metadata doc_id or by the key prefix) is a chunk of a document
\* whose id is in the scope.
C2_OnlyScopedDocuments ==
    (hpc \in {"mmr", "done"} /\ Allowed # {}) =>
        /\ \A i \in 1..Len(candidates) : OwnerOf(candidates[i].key) \in Allowed
        /\ \A i \in 1..Len(hy_result) : OwnerOf(hy_result[i].key) \in Allowed

BaseSims == [i \in 1..Len(candidates) |-> _base_relevance(candidates[i])]

LexRaw ==
    bm25_scores(_tokenize_list(query_text),
                [i \in 1..Len(candidates) |->
                    _tokenize_list(candidates[i].metadata.source_text)])

AllEqual(s) == \A i, j \in 1..Len(s) : s[i] = s[j]

InUnitRange ==
    \A i \in 1..Len(candidates) :
        /\ 0 <= candidates[i]._vec /\ candidates[i]._vec <= One
        /\ 0 <= candidates[i]._lex /\ candidates[i]._lex <= One

\* C3 as stated: _vec and _lex lie in [0,1], and when all raw values of one
\* kind are equal across the batch every normalized value of that kind is 1.0.
C3_TiesNormalizeToOne ==
    hpc = "mmr" =>
        /\ InUnitRange
        /\ AllEqual(BaseSims) =>
              \A i \in 1..Len(candidates) : candidates[i]._vec = One
        /\ AllEqual(LexRaw) =>
              \A i \in 1..Len(candidates) : candidates[i]._lex = One

\* C3: _vec and _lex lie in [0,1]; when all raw similarities are equal every
\* _vec is 1.0; when all raw lexical scores are equal every _lex is 1.0 if
\* that raw score is positive and 0.0 if it is zero.
C3_NormalizedInUnitRange ==
    hpc = "mmr" =>
        /\ InUnitRange
        /\ AllEqual(BaseSims) =>
              \A i \in 1..Len(candidates) : candidates[i]._vec = One
        /\ AllEqual(LexRaw) =>
              \A i \in 1..Len(candidates) :
                 candidates[i]._lex = (IF LexRaw[i] > 0 THEN One ELSE 0)

\* a batch of several candidates whose raw values tie, the lexical ones above 0
C3_Witness ==
    /\ hpc = "mmr"
    /\ Len(candidates) >= 2
    /\ AllEqual(BaseSims)
    /\ AllEqual(LexRaw)
    /\ LexRaw[1] > 0

(***************************************************************************)
(* Claims about ask_with_context                                           *)
(***************************************************************************)
UniqueKeys(results) == [i \in 1..Len(results) |-> unique_key(results[i])]

\* the scores key k received in the variant lists
ScoresOf(k) ==
    {all_results[j].rerank_score :
        j \in {n \in 1..Len(all_results) : unique_key(all_results[n]) = k}}

\* C4: the merge of the variants' result lists holds exactly one entry per
\* chunk key, and the entry of a key carries the largest score the key
\* received in any variant list.
C4_MergeKeepsMaxScorePerKey ==
    (apc = "done" /\ all_results # <<>>) =>
        /\ NoDuplicate(UniqueKeys(dedup))
        /\ Range(UniqueKeys(dedup)) = Range(UniqueKeys(all_results))
        /\ \A i \in 1..Len(dedup) :
              /\ dedup[i]._score \in ScoresOf(unique_key(dedup[i]))
              /\ \A s \in ScoresOf(unique_key(dedup[i])) : s <= dedup[i]._score

\* a key came back from two variants, with a larger score the second time
C4_Witness ==
    /\ apc = "done"
    /\ \E j, k \in 1..Len(all_results) :
          /\ j < k
          /\ unique_key(all_results[j]) = unique_key(all_results[k])
          /\ all_results[j].rerank_score < all_results[k].rerank_score
    /\ Len(dedup) >= 2

(***************************************************************************)
(* Claims about ingestion                                                  *)
(***************************************************************************)
\* "<document id>-chunk<i zero-padded to 4 digits>", for i < 10000
ExpectedKey(document_id, i) ==
    document_id \o <<"-", "c", "h", "u", "n", "k">>
      \o <<DigitChars[((i \div 1000) % 10) + 1],
           DigitChars[((i \div 100) % 10) + 1],
           DigitChars[((i \div 10) % 10) + 1], DigitChars[(i % 10) + 1]>>

\* the document id of a file name: the name without its extension
DocumentId(name) == IF name = F_a_pdf THEN D_a ELSE name

\* C6: the chunk at sequential index i of a document is stored under the key
\* "<document id>-chunk<i padded to 4 digits>", so an ingestion of the chunk
\* sequence the ingestion before it stored leaves the index with exactly the
\* same set of keys.
C6_DeterministicKeysIdempotent ==
    \A n \in 1..Len(ingest_log) :
        /\ \A i \in 1..Len(ingest_log[n].chunks) :
              ingest_log[n].chunks[i].content # <<>> =>
                 ExpectedKey(DocumentId(ingest_log[n].filename), i - 1)
                    \in ingest_log[n].keys
        /\ (n > 1 /\ ingest_log[n].chunks = ingest_log[n - 1].chunks) =>
              ingest_log[n].keys = ingest_log[n - 1].keys

\* a sequence of two chunks was ingested twice
C6_Witness ==
    /\ Len(ingest_log) = 2
    /\ ingest_log[2].chunks = ingest_log[1].chunks
    /\ Cardinality(ingest_log[2].keys) = 2
    /\ stpc = "done"

(***************************************************************************)
(* The answering path                                                      *)
(***************************************************************************)
\* C11: when the embedding provider or the candidate source raises while a
\* question is answered, the caller of the route /ask-with-context receives
\* the answer "Insufficient information", never an error that carries the
\* text of the fault
C11_RetrievalFailureGivesInsufficient ==
    (route_response # <<>> /\ fault # None) =>
        /\ route_response.status = 200
        /\ route_response.answer = S_insufficient

\* C12: when no result is left after all variations, ask_with_context returns
\* an empty context and answer_with_context returns exactly "Insufficient
\* information" without a call of generate_answer
C12_EmptyResultsGiveInsufficient ==
    (apc \in {"done", "answered", "responded"} /\ fault = None
        /\ all_results = <<>>) =>
        /\ ask_return.context = <<>>
        /\ generate_calls = <<>>
        /\ apc # "done" => answer = Some(S_insufficient)

\* a call whose candidates were all outside the scope has been answered
C12_Witness ==
    /\ apc = "answered"
    /\ all_results = <<>>
    /\ ask_doc_ids # <<>>
    /\ answer = Some(S_insufficient)

(***************************************************************************)
(* Batch embedding                                                         *)
(***************************************************************************)
\* C13: whatever the order in which the concurrent requests complete,
\* create_embeddings_batch returns as many vectors as there are texts and the
\* i-th vector is the embedding of the i-th text
C13_BatchKeepsInputOrder ==
    epc = "returned" =>
        /\ Len(batch_embeddings[1]) = Len(texts)
        /\ \A i \in 1..Len(texts) :
              batch_embeddings[1][i] = create_embedding(texts[i])

\* a batch of different texts has been returned, a later request having
\* completed before an earlier one
C13_Witness ==
    /\ epc = "returned"
    /\ Len(texts) >= 2
    /\ create_embedding(texts[1]) # create_embedding(texts[2])
    /\ \E i, j \in 1..Len(arrival) : i < j /\ arrival[i] > arrival[j]

(***************************************************************************)
(* Claims about the calls to the vector store                              *)
(***************************************************************************)
\* the error codes that report throttling
ThrottlingFamily ==
    {"Throttling", "ThrottlingException", "TooManyRequestsException",
     "RequestLimitExceeded"}

LastCall == store_calls[Len(store_calls)]

\* _put_vectors_batch or _delete_vectors_batch has returned or raised
CallOver ==
    stpc \in {"throttled_out", "fatal", "delete_not_found", "delete_raised"}

\* C14: a call to the store that fails with a non-retryable error code ends
\* _put_vectors_batch and _delete_vectors_batch at once: no delay follows it
\* and no attempt is consumed, and if it is the first call it is the only one
C14_NonRetryableEndsAtOnce ==
    (store_calls # <<>> /\ LastCall \notin ThrottlingFamily) =>
        /\ CallOver
        /\ Len(slept) = Len(store_calls) - 1
        /\ attempt = Len(store_calls)
        /\ store_calls[1] \notin ThrottlingFamily =>
              Len(store_calls) = 1 /\ slept = <<>> /\ attempt = 1

\* the first delete_vectors call of a batch was denied, retries being
\* configured
C14_Witness ==
    /\ stpc = "delete_raised"
    /\ store_calls = <<"AccessDeniedException">>
    /\ VECTOR_STORAGE_MAX_RETRIES >= 1

AllThrottled ==
    \A i \in 1..Len(store_calls) : store_calls[i] \in ThrottlingFamily

C20_Bounded ==
    /\ Len(store_calls) <= VECTOR_STORAGE_MAX_RETRIES + 1
    /\ (AllThrottled /\ Len(store_calls) = VECTOR_STORAGE_MAX_RETRIES + 1) =>
          stpc \in {"throttled_out", "fatal", "delete_raised"}
    /\ stpc = "throttled_out" =>
          AllThrottled /\ Len(store_calls) = VECTOR_STORAGE_MAX_RETRIES + 1

\* C20: _put_vectors_batch and _delete_vectors_batch make at most
\* VECTOR_STORAGE_MAX_RETRIES + 1 calls to the store; when all of them are
\* throttled the last one raises the error, and a call that was throttled
\* always returns or raises in the end
C20_ThrottledRetryBounded ==
    /\ []C20_Bounded
    /\ (store_calls # <<>>) ~> (store_calls = <<>> \/ CallOver)

\* every call of a _put_vectors_batch was throttled, two retries and more
\* being configured
C20_Witness ==
    /\ stpc = "throttled_out"
    /\ VECTOR_STORAGE_MAX_RETRIES >= 2
    /\ Len(store_calls) = VECTOR_STORAGE_MAX_RETRIES + 1
    /\ Len(slept) = VECTOR_STORAGE_MAX_RETRIES

(***************************************************************************)
(* Claims about deletion                                                   *)
(***************************************************************************)
ChunkKeysOf(document_id) ==
    {ExpectedKey(document_id, i) : i \in 0..(MaxChunks - 1)}

\* C19: after any ingestions of a file and a deletion of its document id in
\* which no call to a store failed, the index holds no vector with a key
\* "<document id>-chunkNNNN"
C19_DeletionLeavesNoVector ==
    (stpc = "deleted" /\ ~faulted) =>
        \A v \in vector_store : v.key \notin ChunkKeysOf(DocumentId(filename))

(***************************************************************************)
(* Claims about the deadline of context retrieval                          *)
(***************************************************************************)
C15_NoContextAfterDeadline ==
    (dpc = "generated"
       /\ retrieval \in {"raised", "abandoned", "returned_late"}) =>
        /\ generation = <<<<>>>>
        /\ used_context = FALSE

\* C15: in generate_dynamic_prompt and execute_with_prompt the wait for
\* ask_with_context never lasts longer than the timeout; if the call has not
\* returned by then, or raises, the generation step is called with an empty
\* context and used_context is false; the generation step is always reached
C15_DeadlineBoundsRetrieval ==
    /\ [](dpc = "waiting" => elapsed <= Timeout(site))
    /\ []C15_NoContextAfterDeadline
    /\ <>(dpc = "generated")

\* execute_with_prompt has generated after its retrieval ran out of time
C15_Witness ==
    /\ dpc = "generated"
    /\ site = "execute_with_prompt"
    /\ retrieval = "abandoned"
    /\ elapsed = EXECUTE_CONTEXT_TIMEOUT
    /\ generation = <<<<>>>>

(***************************************************************************)
(* Claims about the type-aware rerank                                      *)
(***************************************************************************)
\* C16: for the query "what is the support plan duration?" and a candidate
\* list with one definition chunk that mentions "duration" among
\* text_paragraph chunks, the first result of rerank_results is the
\* definition chunk
C16_DefinitionRankedFirst ==
    rpc = "done" => rr_ranked[1].metadata.chunk_content_type = "definition"

(***************************************************************************)
(* Claims about the scoring strategies of one answering call               *)
(***************************************************************************)
\* C18: within one call of ask_with_context the type-aware rerank is not
\* applied to the output of the hybrid engine: every collected result keeps
\* as its rank score the hybrid score the engine gave it
C18_OneScoringStrategy ==
    \A i \in 1..Len(all_results) :
        all_results[i].rerank_score = all_results[i]._hybrid

(***************************************************************************)
(* Claims about the diversity selection of query_vectors_hybrid            *)
(***************************************************************************)
\* C17: the selection loop stops only at top_k picks or when no candidate is
\* left: the result has exactly min(top_k, number of candidates after scope
\* filtering) entries, and its first entry has the highest hybrid score of
\* all candidates
C17_SelectionFillsTopK ==
    hpc = "done" =>
        /\ Len(hy_result) = Min2(top_k, Len(ScopeFilter(response, doc_ids)))
        /\ \A i \in 1..Len(candidates) :
              hy_result # <<>> /\ candidates[i]._hybrid <= hy_result[1]._hybrid

(***************************************************************************)
(* Claims about the delays between the retries of a store call             *)
(***************************************************************************)
\* C21: the delay before the retry after attempt n of a throttled store
\* call, put or delete, is the backoff factor to the power n - 1, and never
\* more than the cap
C21_BackoffExponentialAndCapped ==
    \A n \in 1..Len(slept) :
        /\ slept[n] <= BACKOFF_CAP
        /\ slept[n] = Min2(BACKOFF_CAP,
                           Pow(VECTOR_STORAGE_BACKOFF_FACTOR, n - 1))

(***************************************************************************)
(* Claims about the heading stack                                          *)
(***************************************************************************)
S_A ==
   <<"A">>
S_B ==
   <<"B">>
S_C ==
   <<"C">>

HeadingLevel(line) == SkipIn(line, 1, {"#"}) - 1
HeadingText(line) ==
    _clean_md(Strip(SubSeq(line, HeadingLevel(line) + 1, Len(line))))

\* the six entries of the stack after a heading of level l and text t:
\* entry l is t, the deeper entries are empty
SetLevel(stack, l, t) ==
    [i \in 1..6 |-> IF i < l THEN stack[i] ELSE IF i = l THEN t ELSE <<>>]

\* the stack after the lines ls when every heading line sets its level, and
\* when only a heading line with a text does
RECURSIVE StackAfter(_, _)
StackAfter(ls, with_empty) ==
    IF ls = <<>> THEN [i \in 1..6 |-> <<>>]
    ELSE LET before == StackAfter(SubSeq(ls, 1, Len(ls) - 1), with_empty)
             line == Strip(ls[Len(ls)])
         IN  IF /\ StartsWith(line, <<"#">>)
                /\ HeadingLevel(line) \in 1..6
                /\ with_empty \/ HeadingText(line) # <<>>
             THEN SetLevel(before, HeadingLevel(line), HeadingText(line))
             ELSE before

\* the last two non-empty texts of a stack, joined by " > "
LastTwo(stack) ==
    LET full == SelectSeq(stack, LAMBDA h : h # <<>>)
    IN  IF Len(full) = 0 THEN <<>>
        ELSE IF Len(full) = 1 THEN full[1]
        ELSE full[Len(full) - 1] \o S_gt_sep \o full[Len(full)]

\* the chunks a step flushes carry the path of the lines read before it,
\* and the stack after the step is the stack of the lines read by then
PathsFollow(with_empty) ==
    /\ \A i \in (Len(all_chunks) + 1)..Len(all_chunks') :
          all_chunks'[i].section_path =
              LastTwo(StackAfter(SubSeq(lines, 1, li - 1), with_empty))
    /\ _section_path(headings') =
           LastTwo(StackAfter(SubSeq(lines, 1, li' - 1), with_empty))

\* C22 as stated: every heading of level L in 1..6 sets entry L of the stack
\* and clears the deeper entries, and a chunk's section_path is the last two
\* non-empty entries at the moment it is flushed, joined by " > "
C22_EveryHeadingSetsItsLevel == [][PathsFollow(TRUE)]_vars

\* C22: a heading of level L in 1..6 whose cleaned text is not empty sets
\* entry L of the stack and clears the deeper entries, a heading without
\* text leaves the stack as it is, and a chunk's section_path is the last
\* two non-empty entries at the moment it is flushed, joined by " > "
C22_TitledHeadingSetsItsLevel == [][PathsFollow(FALSE)]_vars

\* a chunk flushed under three levels of headings carries the last two
C22_Witness ==
    /\ spc = "done"
    /\ \E i \in 1..Len(all_chunks) :
          all_chunks[i].section_path = S_B \o S_gt_sep \o S_C
    /\ \E i \in 1..Len(lines) : lines[i] = L_h3_C

(***************************************************************************)
(* Claims about table captions                                             *)
(***************************************************************************)
IsTableLineAt(i) == StartsWith(Strip(lines[i]), <<"|">>)
IsCaptionAt(i) == TableTitleMatch(_clean_md(Strip(lines[i])))

\* the last line of the run of table lines that starts at line i
RECURSIVE RunEnd(_)
RunEnd(i) ==
    IF i < Len(lines) /\ IsTableLineAt(i + 1) THEN RunEnd(i + 1) ELSE i

\* the caption of the line just before line i, if that line is a caption
CaptionBefore(i) ==
    IF i > 1 /\ IsCaptionAt(i - 1)
    THEN Some(Strip(StripChars(_clean_md(Strip(lines[i - 1])), {"*"})))
    ELSE None

\* the table chunks of the lines from i on, when a table block is a run of
\* contiguous table lines and its title is the caption just before it
RECURSIVE TableChunksFrom(_)
TableChunksFrom(i) ==
    IF i > Len(lines) THEN <<>>
    ELSE IF IsTableLineAt(i)
    THEN _process_table_chunk(
             [k \in 1..(RunEnd(i) - i + 1) |-> Strip(lines[i + k - 1])],
             <<>>, CaptionBefore(i), None)
         \o TableChunksFrom(RunEnd(i) + 1)
    ELSE TableChunksFrom(i + 1)

\* C23: a caption line is the title of the table block that immediately
\* follows it and of no other: a table block is a run of contiguous table
\* lines, a caption ends the block that is open, and a table apart from the
\* caption or after another table has no title
C23_CaptionOnlyOnNextTable ==
    spc = "done" =>
        SelectSeq(all_chunks, LAMBDA c : c.type = "table_row")
            = TableChunksFrom(1)

(***************************************************************************)
(* Claims about the classification of a paragraph                          *)
(***************************************************************************)
S_means ==
   <<"m", "e", "a", "n", "s">>

ChunkTypes == {"table_row", "definition", "procedure", "text_paragraph"}

\* the type of a paragraph by its cues, means_cue being the cue of "means"
TypeByCues(paragraph, means_cue) ==
    LET t == Lower(_clean_md(paragraph))
    IN  IF \/ Contains(t, S_definition_colon)
           \/ Contains(t, means_cue)
           \/ Contains(t, S_is_defined_as)
           \/ Contains(t, S_refers_to)
        THEN "definition"
        ELSE IF \/ Contains(t, S_steps)
                \/ Contains(t, S_procedure)
                \/ Contains(t, S_how_to)
                \/ Contains(t, S_process)
                \/ Contains(t, S_method)
        THEN "procedure"
        ELSE "text_paragraph"

\* the lines of the text are one paragraph
WholeParagraph ==
    Join([i \in 1..Len(lines) |-> Strip(lines[i])], <<" ">>)

TypedByCues(means_cue) ==
    spc = "done" =>
        \A i \in 1..Len(all_chunks) :
            /\ all_chunks[i].type \in ChunkTypes
            /\ all_chunks[i].type = TypeByCues(WholeParagraph, means_cue)

\* C24 as stated: the cue of a definition is "means"
C24_TypedByCueMeans == TypedByCues(S_means)

\* C24: a flushed paragraph is classified on its cleaned, lower-cased text:
\* definition if it contains "definition:", "means " (with the blank after
\* it), "is defined as" or "refers to"; otherwise procedure if it contains
\* "steps", "procedure", "how to", "process" or "method"; otherwise
\* text_paragraph; every chunk has one of the four types
C24_TypedByCueMeansBlank == TypedByCues(S_means_)

\* a paragraph with a definition cue in bold and a procedure cue
C24_Witness ==
    /\ spc = "done"
    /\ all_chunks # <<>>
    /\ all_chunks[1].type = "definition"
    /\ lines = <<L_Steps, L_bold_means_x>>

(***************************************************************************)
(* Claims about page footers                                               *)
(***************************************************************************)
\* the page a footer line gives
FooterPage(line) ==
    IF line = L_footer THEN Some(7)
    ELSE IF line = L_footer_12 THEN Some(12)
    ELSE None

\* the page of the last footer among the first n lines
RECURSIVE PageAfter(_)
PageAfter(n) ==
    IF n = 0 THEN None
    ELSE IF FooterPage(lines[n]) # None THEN FooterPage(lines[n])
    ELSE PageAfter(n - 1)

\* C25: a step on a page footer line sets the page counter to the number of
\* the line and changes no buffer and no chunk; no chunk's content holds the
\* text of a footer; and every chunk flushed carries the page of the last
\* footer line read before the flush
C25_FooterSetsPageOnly ==
    [][/\ (InLoop /\ FooterPage(lines[li]) # None) =>
            /\ current_page' = FooterPage(lines[li])
            /\ UNCHANGED <<all_chunks, text_buffer, table_buffer>>
       /\ \A i \in (Len(all_chunks) + 1)..Len(all_chunks') :
            /\ all_chunks'[i].page_number = PageAfter(li - 1)
            /\ ~Contains(Lower(all_chunks'[i].content), S_award_code)]_vars

\* a table block with a footer between its header and its data line, flushed
\* after a second footer
C25_Witness ==
    /\ spc = "done"
    /\ lines = <<L_header, L_footer, L_row, L_footer_12>>
    /\ Len(all_chunks) = 1
    /\ all_chunks[1].page_number = Some(12)

(***************************************************************************)
(* Claims about the order of the merge                                     *)
(***************************************************************************)

\* the lists ls with those at i and j exchanged
Swapped(ls, i, j) == [ls EXCEPT ![i] = ls[j], ![j] = ls[i]]

\* the dict and the result list ask_with_context gets from the lists ls
MergedOf(ls) == Dedup(<<>>, Concat(ls))
ResultsOf(ls) == Take(SortDescBy(MergedOf(ls), "_score"), ask_top_k)

\* the key-to-score mapping of a dict, and the keys and scores of a list
ScoreByKey(d) == {<<unique_key(d[i]), d[i]._score>> : i \in 1..Len(d)}
ScoreList(rs) == [i \in 1..Len(rs) |-> rs[i]._score]

Merged ==
    /\ apc \in {"done", "answered", "responded"}
    /\ fault = None
    /\ all_results # <<>>

\* C27 as stated: with the lists of two variants exchanged, the merged
\* key-to-score mapping and the result list are the same
C27_MergeOrderFree ==
    Merged =>
        \A i, j \in 1..Len(var_results_seen) :
            LET other == Swapped(var_results_seen, i, j)
            IN  /\ ScoreByKey(MergedOf(other)) = ScoreByKey(dedup)
                /\ UniqueKeys(ResultsOf(other)) = UniqueKeys(ask_return.results)

\* C27: with the lists of two variants exchanged, the merged key-to-score
\* mapping is the same and the result list has the same scores in the same
\* order; which of the results of equal score it holds, and in which order,
\* can differ
C27_MergedScoresOrderFree ==
    Merged =>
        /\ dedup = MergedOf(var_results_seen)
        /\ \A i, j \in 1..Len(var_results_seen) :
              LET other == Swapped(var_results_seen, i, j)
              IN  /\ ScoreByKey(MergedOf(other)) = ScoreByKey(dedup)
                  /\ ScoreList(ResultsOf(other)) = ScoreList(ask_return.results)

\* two variants gave results of different keys, merged with top_k = 1
C27_Witness ==
    /\ Merged
    /\ ask_top_k = 1
    /\ \E i, j \in 1..Len(var_results_seen) :
          /\ i < j
          /\ var_results_seen[i] # <<>>
          /\ var_results_seen[j] # <<>>
          /\ UniqueKeys(var_results_seen[i]) # UniqueKeys(var_results_seen[j])

\* ---- C26 ----
Distinct(s) == \A i, j \in 1..Len(s) : s[i] = s[j] => i = j

\* the labeled blocks of the first n results
Rendered(results, n) ==
    Join([i \in 1..n |-> ContextPart(i, results[i])], <<"\n">>)

MergeReturned == apc = "done" /\ all_results # <<>>

\* C26: ask_with_context runs the engine on at most 4 distinct variants of
\* the query, the query among them, and returns at most top_k results, of
\* which at most the first 5 are rendered into the context
C26_VariantsAndResultsBounded ==
    /\ Len(variations) <= 4
    /\ Distinct(variations)
    /\ \E i \in 1..Len(variations) : variations[i] = query
    /\ Len(var_results_seen) <= Len(variations)
    /\ MergeReturned =>
         /\ Len(ask_return.results) <= ask_top_k
         /\ \E n \in 0..Min2(5, Len(ask_return.results)) :
              ask_return.context = Rendered(ask_return.results, n)

\* the same for a top_k of at least 0
C26_BoundedForNaturalTopK ==
    (MergeReturned /\ ask_top_k >= 0) =>
        /\ Len(ask_return.results) <= ask_top_k
        /\ \E n \in 0..Min2(5, Len(ask_return.results)) :
             ask_return.context = Rendered(ask_return.results, n)

C26_Witness ==
    /\ MergeReturned
    /\ ask_top_k = -1
    /\ Len(ask_return.results) >= 1

\* ---- C28 ----
DeleteReturned == stpc = "deleted" /\ delete_return # None

\* C28: the count of deleted vectors that delete_embeddings_and_metadata
\* returns is the number of vectors the call removed from the vector store
C28_DeletedCountIsRemoved ==
    DeleteReturned => delete_return[1][1] = removed_vectors

\* ---- C29 ----
SessionDocuments == {sess[1].document_ids[i] : i \in 1..Len(sess[1].document_ids)}

\* C29: a question asked with a session retrieves only chunks of the
\* documents of the session; with no document in the session, no chunk
C29_SessionScopesRetrieval ==
    sess # None =>
        \A t \in 1..Len(var_results_seen) :
            \A i \in 1..Len(var_results_seen[t]) :
                OwnerOf(var_results_seen[t][i].key) \in SessionDocuments

\* the same for a session with at least one document
C29_NonEmptySessionScopesRetrieval ==
    (sess # None /\ SessionDocuments # {}) =>
        \A t \in 1..Len(var_results_seen) :
            \A i \in 1..Len(var_results_seen[t]) :
                OwnerOf(var_results_seen[t][i].key) \in SessionDocuments

\* ---- C30 ----
\* C30: under any interleaving of the callers of _get_session one session
\* is created, every call returns it, and the session a call returns, like
\* the one the global holds, has its adapters mounted
C30_OneConfiguredSession ==
    /\ Len(created) <= 1
    /\ \A r \in returned : r.session = 1 /\ r.adapters = Prefixes
    /\ _session # None => _session = Some(1) /\ created[1] = Prefixes

\* a caller saw None in the first test and waits for the lock while the
\* session has been set and returned to another caller
C30_Witness ==
    \E t \in Callers :
        /\ gpc[t] = "acquire"
        /\ \E r \in returned : r.caller # t

====
